---- MODULE Spec2Model ----
(***************************************************************************)
(* A model of pureapi-core's data-access core: the transaction unit-of-work *)
(* (database.Transaction, txManager.WithTransaction, api.GetInvoke) and the *)
(* field translation layer (input.Selectors / Orders / Updates and the     *)
(* Parse*Input assemblers).                                                *)
(*                                                                         *)
(* Go values are represented as follows.                                   *)
(*   error        a sequence of strings, the chain of messages from the    *)
(*                outermost wrapper to the root cause; nil is <<>>;        *)
(*                fmt.Errorf("msg: %w", err) is <<"msg">> \o err.          *)
(*   any (panic)  a string; a nil interface is NilAny.                     *)
(*   string       where the code inspects characters (strings.ToLower), a  *)
(*                sequence of one-character strings; otherwise a string.   *)
(*   map          a function; ranging over a map visits the keys in an     *)
(*                order the runtime chooses, modelled as a sequence that   *)
(*                enumerates the keys, chosen nondeterministically.        *)
(***************************************************************************)
EXTENDS Integers, Sequences, FiniteSets, TLC

\* ------------------------------------------------------------------------
\* Bounds
\* ------------------------------------------------------------------------
\* Result values a TxFn may return are 0..MaxResult; 0 is Result's zero value.
MaxResult == 2
\* Rows a TxFn may write through the transaction are 1..MaxRows.
MaxRows == 2
\* Selectors, Orders and Updates hold at most MaxEntries entries.
MaxEntries == 2
\* A row cursor delivers at most MaxDBRows rows.
MaxDBRows == 2
\* Chain is applied to at most MaxMiddlewares middlewares.
MaxMiddlewares == 3
\* At most MaxResWrapCalls calls are made on one ResWrap.
MaxResWrapCalls == 4
\* At most MaxSignals interrupt or termination signals reach the process.
MaxSignals == 2
\* At most MaxListeners listeners are registered with one emitter.
MaxListeners == 3
\* The maxPage argument handed to ParseGetInput.
MaxPageArg == 2

\* ------------------------------------------------------------------------
\* Values
\* ------------------------------------------------------------------------
Nil == <<>>
NilAny == "<nil>"
zero == 0

\* fmt.Errorf(msg + ": %w", err)
Errorf(msg, err) == <<msg>> \o err

\* errors.Is(err, target) for errors built with Errorf: target is a suffix.
ErrorsIs(err, target) ==
    /\ Len(target) <= Len(err)
    /\ SubSeq(err, Len(err) - Len(target) + 1, Len(err)) = target

ResultValues == 0..MaxResult
RowIds == 1..MaxRows
TxFnErrors == {<<"txFn error">>}
CommitErrors == {<<"commit failed">>}
RollbackErrors == {<<"rollback failed">>}
ConnErrors == {<<"connFn error">>}
BeginErrors == {<<"DB.BeginTx error", "begin failed">>}
RepoErrors == {<<"repo error">>}
\* The values recover() yields for a panic of txFn. They are never nil: the
\* runtime hands a panic(nil) to recover() as a *runtime.PanicNilError.
PanicValues == {"panic occurred", "panic in txFn"}

\* ------------------------------------------------------------------------
\* State of the transaction unit-of-work
\* ------------------------------------------------------------------------
VARIABLES
    pc,             \* control position of the running operation
    op,             \* the exported operation that was called
    commitErr,      \* what tx.Commit returns   (FakeTx.commitErr)
    rollbackErr,    \* what tx.Rollback returns (FakeTx.rollbackErr)
    commitCalled,   \* number of tx.Commit calls   (FakeTx.commitCalled)
    rollbackCalled, \* number of tx.Rollback calls (FakeTx.rollbackCalled)
    txBegun,        \* number of transactions the library began (conn.BeginTx)
    txEntered,      \* TRUE once database.Transaction has been entered
    result,         \* Transaction's named result
    txErr,          \* Transaction's named result txErr
    panicking,      \* the value of the panic in flight, or NilAny
    recovered,      \* the deferred function's local recovered
    panicOccurred,  \* the deferred function's local panicOccurred
    fOut,           \* how txFn ended: its return values or its panic value
    outcome,        \* what the caller of the operation observes
    store,          \* rows visible in the store (committed)
    pending         \* rows written through tx and not yet committed

txVars == <<pc, op, commitErr, rollbackErr, commitCalled, rollbackCalled,
            txBegun, txEntered, result, txErr, panicking, recovered,
            panicOccurred, fOut, outcome, store, pending>>

\* ------------------------------------------------------------------------
\* State of the field translation layer
\* ------------------------------------------------------------------------
\* The translation functions keep no state between calls; the state records
\* the call that was made and what it returned.
VARIABLES
    inCall,         \* the translation call: the function and its arguments
    inRet           \* what the call returned

inVars == <<inCall, inRet>>

\* ------------------------------------------------------------------------
\* State of the execution primitives
\* ------------------------------------------------------------------------
\* The primitives keep no state between calls; the state records the call
\* that was made, how the handles behind it behaved, and what it handed back.
VARIABLES
    dbCall,         \* the primitive called, its arguments and its handles
    dbRet           \* what it returned and the calls it made on the handles

dbVars == <<dbCall, dbRet>>

\* ------------------------------------------------------------------------
\* State of the middleware chain
\* ------------------------------------------------------------------------
VARIABLES
    chPc,           \* "idle", "chain" (in the loop of Chain), "serve", "done"
    chMiddlewares,  \* the list Chain is applied to
    chI,            \* the loop index i of Chain, counted from 1
    chWrapped,      \* the handler built so far, outermost middleware first
    chDepth,        \* how many middlewares the request has entered
    chDown,         \* the request is on its way to the final handler
    chEvents        \* what ran on the request, in order

chVars == <<chPc, chMiddlewares, chI, chWrapped, chDepth, chDown, chEvents>>

\* ------------------------------------------------------------------------
\* State of the response wrapper
\* ------------------------------------------------------------------------
VARIABLES
    resWrap,        \* the fields of defaultResWrap
    underlying,     \* the ResponseWriter it embeds
    rwCalls         \* the calls made on the ResWrap so far

rwVars == <<resWrap, underlying, rwCalls>>

\* ------------------------------------------------------------------------
\* State of the event emitter
\* ------------------------------------------------------------------------
\* e.listeners[t] is a slice: a backing array with a length. A listener is
\* known by the number of its id. Emit keeps a copy of the slice header, that
\* is the same backing array for as long as no append has moved the slice of
\* the emitter to a new array.
VARIABLES
    emArray,        \* per event type, the backing array of e.listeners[t]
    emLen,          \* per event type, len(e.listeners[t])
    emCounter,      \* e.counter
    emPc,           \* the call of Emit: "idle", "loop", "done"
    emType,         \* event.Type of the call
    emSnapLen,      \* len(listeners) of the local slice of Emit
    emShared,       \* the local slice still has the emitter's backing array
    emOwn,          \* the backing array of the local slice when it has not
    emIndex,        \* the index of the range loop of Emit, counted from 1
    emInvoked,      \* the listeners whose callback the call has started
    emDuring        \* the listeners registered for emType during the call

emVars == <<emArray, emLen, emCounter, emPc, emType, emSnapLen, emShared,
            emOwn, emIndex, emInvoked, emDuring>>

\* ------------------------------------------------------------------------
\* State of the HTTP server start-up and shutdown
\* ------------------------------------------------------------------------
VARIABLES
    srvPc,          \* startServer: "wait", "shutdown", "recv", "returned"
    srvRet,         \* the error startServer returned
    lsPc,           \* the goroutine of listenAndServe: "start", "listen",
                    \* "sendErr", "sendStop", "done"
    lsErr,          \* err of listenAndServe, what ListenAndServe returned
    stopChan,       \* the number of signals buffered in stopChan
    errChan,        \* the errors buffered in errChan
    shutdownCalls,  \* the number of calls of server.Shutdown
    signals         \* the number of signals the process has been sent

srvVars == <<srvPc, srvRet, lsPc, lsErr, stopChan, errChan, shutdownCalls,
             signals>>

vars == <<txVars, inVars, dbVars, chVars, rwVars, emVars, srvVars>>

\* The variables the event emitter leaves alone.
nonEmVars == <<txVars, inVars, dbVars, chVars, rwVars, srvVars>>

\* The variables the server start-up leaves alone.
nonSrvVars == <<txVars, inVars, dbVars, chVars, rwVars, emVars>>

\* The variables the response wrapper leaves alone.
nonRwVars == <<txVars, inVars, dbVars, chVars, emVars, srvVars>>

\* The variables the transaction unit-of-work leaves alone.
nonTxVars == <<inVars, dbVars, chVars, rwVars, emVars, srvVars>>

\* The variables the field translation layer leaves alone.
nonInVars == <<txVars, dbVars, chVars, rwVars, emVars, srvVars>>

\* The variables the execution primitives leave alone.
nonDbVars == <<txVars, inVars, chVars, rwVars, emVars, srvVars>>

\* The variables the middleware chain leaves alone.
nonChVars == <<txVars, inVars, dbVars, rwVars, emVars, srvVars>>

NoOut == [kind |-> "none", result |-> zero, err |-> Nil, pv |-> NilAny]
Returned(v, e) == [kind |-> "return", result |-> v, err |-> e, pv |-> NilAny]
Panicked(p) == [kind |-> "panic", result |-> zero, err |-> Nil, pv |-> p]

\* How txFn ended, with the rows it had written through tx by then.
FnNotEnded == [kind |-> "none", result |-> zero, err |-> Nil, pv |-> NilAny,
               wrote |-> {}]
FnReturned(v, e, w) == [kind |-> "return", result |-> v, err |-> e,
                        pv |-> NilAny, wrote |-> w]
FnPanicked(p, w) == [kind |-> "panic", result |-> zero, err |-> Nil, pv |-> p,
                     wrote |-> w]

InitTx ==
    /\ pc = "idle"
    /\ op = "none"
    /\ commitErr = Nil
    /\ rollbackErr = Nil
    /\ commitCalled = 0
    /\ rollbackCalled = 0
    /\ txBegun = 0
    /\ txEntered = FALSE
    /\ result = zero
    /\ txErr = Nil
    /\ panicking = NilAny
    /\ recovered = NilAny
    /\ panicOccurred = FALSE
    /\ fOut = FnNotEnded
    /\ outcome = NoOut
    /\ store = {}
    /\ pending = {}

\* ------------------------------------------------------------------------
\* database.Transaction
\* ------------------------------------------------------------------------

\* The caller hands Transaction a transaction it began itself; the
\* transaction's Commit and Rollback behave as configured (FakeTx).
CallTransaction(ce, re) ==
    /\ pc = "idle"
    /\ pc' = "txFn"
    /\ op' = "Transaction"
    /\ txEntered' = TRUE
    /\ commitErr' = ce
    /\ rollbackErr' = re
    /\ UNCHANGED <<commitCalled, rollbackCalled, txBegun, result, txErr,
                   panicking, recovered, panicOccurred, fOut, outcome,
                   store, pending>>
    /\ UNCHANGED nonTxVars

\* txFn writes a row through tx (tx.Exec of an INSERT): the row is part of the
\* transaction and not visible in the store until the transaction commits.
TxFnExec(r) ==
    /\ pc = "txFn"
    /\ r \notin pending
    /\ pending' = pending \cup {r}
    /\ UNCHANGED <<pc, op, commitErr, rollbackErr, commitCalled,
                   rollbackCalled, txBegun, txEntered, result, txErr,
                   panicking, recovered, panicOccurred, fOut, outcome, store>>
    /\ UNCHANGED nonTxVars

\* return txFn(ctx, tx): txFn returns (v, e), which sets the named results.
TxFnReturn(v, e) ==
    /\ pc = "txFn"
    /\ pc' = "defer"
    /\ result' = v
    /\ txErr' = e
    /\ fOut' = FnReturned(v, e, pending)
    /\ UNCHANGED <<op, commitErr, rollbackErr, commitCalled, rollbackCalled,
                   txBegun, txEntered, panicking, recovered, panicOccurred,
                   outcome, store, pending>>
    /\ UNCHANGED nonTxVars

\* txFn panics with p: the named results keep their zero values and the
\* deferred function runs with the panic in flight.
TxFnPanic(p) ==
    /\ pc = "txFn"
    /\ pc' = "defer"
    /\ panicking' = p
    /\ fOut' = FnPanicked(p, pending)
    /\ UNCHANGED <<op, commitErr, rollbackErr, commitCalled, rollbackCalled,
                   txBegun, txEntered, result, txErr, recovered,
                   panicOccurred, outcome, store, pending>>
    /\ UNCHANGED nonTxVars

\* fmt.Errorf("Transaction TxFn panicked: %v", recovered)
PanicError(rec) == <<"Transaction TxFn panicked", rec>>

\* The deferred function's recovery: recover() stops the panic in flight and
\* a recovered panic becomes txErr.
DeferRecover ==
    /\ pc = "defer"
    /\ pc' = "finalize"
    /\ recovered' = panicking
    /\ panicking' = NilAny
    /\ IF panicking # NilAny
         THEN /\ panicOccurred' = TRUE
              /\ txErr' = PanicError(panicking)
         ELSE UNCHANGED <<panicOccurred, txErr>>
    /\ UNCHANGED <<op, commitErr, rollbackErr, commitCalled, rollbackCalled,
                   txBegun, txEntered, result, fOut, outcome, store, pending>>
    /\ UNCHANGED nonTxVars

\* finalizeTransaction without the "return nil" that ends its rollback branch:
\* a successful rollback falls through to the commit.
finalizeTransaction_fallThrough(txe, ce, re) ==
    IF txe # Nil /\ re # Nil
      THEN [calls |-> <<"Rollback">>,
            err |-> Errorf("finalizeTransaction rollback error", re)]
      ELSE [calls |-> IF txe # Nil THEN <<"Rollback", "Commit">>
                                   ELSE <<"Commit">>,
            err |-> IF ce # Nil
                      THEN Errorf("finalizeTransaction commit error", ce)
                      ELSE Nil]

\* finalizeTransaction with its test inverted: commit on error, rollback on
\* success.
finalizeTransaction_inverted(txe, ce, re) ==
    IF txe = Nil
      THEN [calls |-> <<"Rollback">>,
            err |-> IF re # Nil
                      THEN Errorf("finalizeTransaction rollback error", re)
                      ELSE Nil]
      ELSE [calls |-> <<"Commit">>,
            err |-> IF ce # Nil
                      THEN Errorf("finalizeTransaction commit error", ce)
                      ELSE Nil]

\* finalizeTransaction ignoring what tx.Rollback returns.
finalizeTransaction_swallowRollback(txe, ce, re) ==
    IF txe # Nil
      THEN [calls |-> <<"Rollback">>, err |-> Nil]
      ELSE [calls |-> <<"Commit">>,
            err |-> IF ce # Nil
                      THEN Errorf("finalizeTransaction commit error", ce)
                      ELSE Nil]

\* finalizeTransaction ignoring what tx.Commit returns.
finalizeTransaction_swallowCommit(txe, ce, re) ==
    IF txe # Nil
      THEN [calls |-> <<"Rollback">>,
            err |-> IF re # Nil
                      THEN Errorf("finalizeTransaction rollback error", re)
                      ELSE Nil]
      ELSE [calls |-> <<"Commit">>, err |-> Nil]

\* finalizeTransaction(tx, txErr): the calls it makes on tx, in order, and the
\* error it returns; ce and re are what tx.Commit and tx.Rollback return.
finalizeTransaction(txe, ce, re) ==
    IF txe # Nil
      THEN [calls |-> <<"Rollback">>,
            err |-> IF re # Nil
                      THEN Errorf("finalizeTransaction rollback error", re)
                      ELSE Nil]
      ELSE [calls |-> <<"Commit">>,
            err |-> IF ce # Nil
                      THEN Errorf("finalizeTransaction commit error", ce)
                      ELSE Nil]

\* The number of calls of method m in a sequence of calls.
CountCalls(calls, m) == Cardinality({i \in DOMAIN calls : calls[i] = m})

\* The transaction's effect on the store of one call on tx: a successful
\* Commit makes the transaction's rows visible, a successful Rollback discards
\* them, a failed call changes nothing that is visible.
TxCall(st, call, ce, re) ==
    IF call = "Commit"
      THEN IF ce = Nil
             THEN [store |-> st.store \cup st.pending, pending |-> {}]
             ELSE st
      ELSE IF re = Nil
             THEN [store |-> st.store, pending |-> {}]
             ELSE st

RECURSIVE TxCalls(_, _, _, _)
TxCalls(st, calls, ce, re) ==
    IF calls = <<>>
      THEN st
      ELSE TxCalls(TxCall(st, Head(calls), ce, re), Tail(calls), ce, re)

\* The deferred function without "result = zero".
AfterFinalize_noZero(res, txe, err) ==
    IF err # Nil
      THEN [result |-> res, txErr |-> err]
      ELSE [result |-> res, txErr |-> txe]

\* Transaction's results after finalizeTransaction returned err: a finalization
\* failure replaces txErr and zeroes result.
AfterFinalize(res, txe, err) ==
    IF err # Nil
      THEN [result |-> zero, txErr |-> err]
      ELSE [result |-> res, txErr |-> txe]

\* The deferred function's "Rollback or commit the transaction" step.
Finalize ==
    /\ pc = "finalize"
    /\ pc' = "propagate"
    /\ LET fin == finalizeTransaction(txErr, commitErr, rollbackErr)
           st == TxCalls([store |-> store, pending |-> pending], fin.calls,
                         commitErr, rollbackErr)
           out == AfterFinalize(result, txErr, fin.err)
       IN /\ commitCalled' = commitCalled + CountCalls(fin.calls, "Commit")
          /\ rollbackCalled' = rollbackCalled + CountCalls(fin.calls, "Rollback")
          /\ store' = st.store
          /\ pending' = st.pending
          /\ result' = out.result
          /\ txErr' = out.txErr
    /\ UNCHANGED <<op, commitErr, rollbackErr, txBegun, txEntered, panicking,
                   recovered, panicOccurred, fOut, outcome>>
    /\ UNCHANGED nonTxVars

\* The deferred function without its final panic(recovered): a recovered
\* panic is returned as an error.
Leave_noRepanic(occurred, rec, res, txe) == Returned(res, txe)

\* How control leaves Transaction: a recovered panic is raised again with the
\* recovered value, otherwise the named results are returned.
Leave(occurred, rec, res, txe) ==
    IF occurred THEN Panicked(rec) ELSE Returned(res, txe)

\* The deferred function's "Propagate the panic if there was one" step and
\* the return to the caller.
Propagate ==
    /\ pc = "propagate"
    /\ pc' = "done"
    /\ outcome' = Leave(panicOccurred, recovered, result, txErr)
    /\ UNCHANGED <<op, commitErr, rollbackErr, commitCalled, rollbackCalled,
                   txBegun, txEntered, result, txErr, panicking, recovered,
                   panicOccurred, fOut, store, pending>>
    /\ UNCHANGED nonTxVars

\* ------------------------------------------------------------------------
\* txManager.WithTransaction
\* ------------------------------------------------------------------------

\* connFn() returns connErr; conn.BeginTx returns beginErr; when both succeed
\* the begun transaction is handed to database.Transaction.
WithTransaction(connErr, beginErr, ce, re) ==
    /\ pc = "idle"
    /\ op' = "WithTransaction"
    /\ IF connErr # Nil
         THEN /\ pc' = "done"
              /\ outcome' = Returned(zero, connErr)
              /\ UNCHANGED <<txBegun, txEntered, commitErr, rollbackErr>>
         ELSE IF beginErr # Nil
           THEN /\ pc' = "done"
                /\ outcome' = Returned(zero, beginErr)
                /\ UNCHANGED <<txBegun, txEntered, commitErr, rollbackErr>>
           ELSE /\ pc' = "txFn"
                /\ txBegun' = txBegun + 1
                /\ txEntered' = TRUE
                /\ commitErr' = ce
                /\ rollbackErr' = re
                /\ UNCHANGED outcome
    /\ UNCHANGED <<commitCalled, rollbackCalled, result, txErr, panicking,
                   recovered, panicOccurred, fOut, store, pending>>
    /\ UNCHANGED nonTxVars

\* ------------------------------------------------------------------------
\* api.GetInvoke
\* ------------------------------------------------------------------------

\* connFn() and conn.BeginTx as in WithTransaction; on success the repository
\* is called next with the begun transaction.
GetInvokeBegin(connErr, beginErr, ce, re) ==
    /\ pc = "idle"
    /\ op' = "GetInvoke"
    /\ IF connErr # Nil
         THEN /\ pc' = "done"
              /\ outcome' = Returned(zero, connErr)
              /\ UNCHANGED <<txBegun, commitErr, rollbackErr>>
         ELSE IF beginErr # Nil
           THEN /\ pc' = "done"
                /\ outcome' = Returned(zero, beginErr)
                /\ UNCHANGED <<txBegun, commitErr, rollbackErr>>
           ELSE /\ pc' = "getRepo"
                /\ txBegun' = txBegun + 1
                /\ commitErr' = ce
                /\ rollbackErr' = re
                /\ UNCHANGED outcome
    /\ UNCHANGED <<commitCalled, rollbackCalled, txEntered, result, txErr,
                   panicking, recovered, panicOccurred, fOut, store, pending>>
    /\ UNCHANGED nonTxVars

\* readerRepo.Count (parsedInput.Count) or readerRepo.GetMany returns
\* (n, repoErr) and GetInvoke returns to its caller.
GetInvokeRepo(count, n, repoErr) ==
    /\ pc = "getRepo"
    /\ pc' = "done"
    /\ outcome' = IF repoErr # Nil THEN Returned(zero, repoErr)
                                   ELSE Returned(n, Nil)
    /\ UNCHANGED <<op, commitErr, rollbackErr, commitCalled, rollbackCalled,
                   txBegun, txEntered, result, txErr, panicking, recovered,
                   panicOccurred, fOut, store, pending>>
    /\ UNCHANGED nonTxVars

\* ------------------------------------------------------------------------
\* Field translation layer: values
\* ------------------------------------------------------------------------

\* strings.ToLower on a string of characters: ASCII upper-case letters are
\* mapped to lower case, every other character is kept.
UpperCase == <<"A", "B", "C", "D", "E", "F", "G", "H", "I", "J", "K", "L", "M",
               "N", "O", "P", "Q", "R", "S", "T", "U", "V", "W", "X", "Y", "Z">>
LowerCase == <<"a", "b", "c", "d", "e", "f", "g", "h", "i", "j", "k", "l", "m",
               "n", "o", "p", "q", "r", "s", "t", "u", "v", "w", "x", "y", "z">>

ToLowerChar(c) ==
    IF \E i \in DOMAIN UpperCase : UpperCase[i] = c
      THEN LowerCase[CHOOSE i \in DOMAIN UpperCase : UpperCase[i] = c]
      ELSE c

\* strings.ToLower leaving the token as the caller wrote it.
ToLower_asWritten(str) == str

ToLower(str) == [i \in 1..Len(str) |-> ToLowerChar(str[i])]

\* input.Predicate constants.
Greater == <<">">>
Gt == <<"g", "t">>
GreaterOrEqual == <<">", "=">>
Ge == <<"g", "e">>
Equal == <<"=">>
Eq == <<"e", "q">>
NotEqual == <<"!", "=">>
Ne == <<"n", "e">>
Less == <<"<">>
Lt == <<"L", "T">>
LessOrEqual == <<"<", "=">>
Le == <<"l", "e">>
In == <<"i", "n">>
NotIn == <<"n", "o", "t", "_", "i", "n">>

\* dbquery.Predicate constants.
dbqueryGreater == ">"
dbqueryGreaterOrEqual == ">="
dbqueryEqual == "="
dbqueryNotEqual == "!="
dbqueryLess == "<"
dbqueryLessOrEqual == "<="
dbqueryIn == "IN"
dbqueryNotIn == "NOT IN"

\* The map input.ToDBPredicates.
ToDBPredicates ==
    (Greater :> dbqueryGreater) @@ (Gt :> dbqueryGreater) @@
    (GreaterOrEqual :> dbqueryGreaterOrEqual) @@ (Ge :> dbqueryGreaterOrEqual) @@
    (Equal :> dbqueryEqual) @@ (Eq :> dbqueryEqual) @@
    (NotEqual :> dbqueryNotEqual) @@ (Ne :> dbqueryNotEqual) @@
    (Less :> dbqueryLess) @@ (Lt :> dbqueryLess) @@
    (LessOrEqual :> dbqueryLessOrEqual) @@ (Le :> dbqueryLessOrEqual) @@
    (In :> dbqueryIn) @@ (NotIn :> dbqueryNotIn)

\* The slice input.AllPredicates, as the set of its elements.
AllPredicates ==
    {Greater, Gt, GreaterOrEqual, Ge, Equal, Eq, NotEqual, Ne, Less, Lt,
     LessOrEqual, Le, In, NotIn}

\* input.OrderDirection constants and dbquery.OrderDirection constants.
DirectionAsc == <<"a", "s", "c">>
DirectionAscending == <<"a", "s", "c", "e", "n", "d", "i", "n", "g">>
DirectionDesc == <<"d", "e", "s", "c">>
DirectionDescending == <<"d", "e", "s", "c", "e", "n", "d", "i", "n", "g">>
OrderAsc == "ASC"
OrderDesc == "DESC"

\* The map input.DirectionsToDB.
DirectionsToDB ==
    (DirectionAsc :> OrderAsc) @@ (DirectionAscending :> OrderAsc) @@
    (DirectionDesc :> OrderDesc) @@ (DirectionDescending :> OrderDesc)

\* m[key] on a Go map whose values are strings: a missing key gives "".
StringAt(m, key) == IF key \in DOMAIN m THEN m[key] ELSE ""

\* input.DBField, and m[key] on a map of DBFields: a missing key gives the
\* zero DBField.
DBField(table, column) == [Table |-> table, Column |-> column]
DBFieldAt(m, key) == IF key \in DOMAIN m THEN m[key] ELSE DBField("", "")

\* A slice: nil, or a sequence of elements.
NilSlice == [nil |-> TRUE, elems |-> <<>>]
Slice(elems) == [nil |-> FALSE, elems |-> elems]

\* The APIErrors of the input package: the id and the data they carry.
ErrInvalidOrderField(field) ==
    <<[id |-> "INVALID_ORDER_FIELD", field |-> field]>>
ErrInvalidPredicate(predicate) ==
    <<[id |-> "INVALID_PREDICATE", predicate |-> predicate]>>
ErrInvalidDatabaseSelectorTranslation(field) ==
    <<[id |-> "INVALID_DATABASE_SELECTOR_TRANSLATION", field |-> field]>>
ErrInvalidDatabaseUpdateTranslation(field) ==
    <<[id |-> "INVALID_DATABASE_UPDATE_TRANSLATION", field |-> field]>>
ErrNeedAtLeastOneSelector == <<[id |-> "NEED_AT_LEAST_ONE_SELECTOR"]>>
ErrNeedAtLeastOneUpdate == <<[id |-> "NEED_AT_LEAST_ONE_UPDATE"]>>

\* A pair (value, error) returned by a translation function.
Ret(val, err) == [val |-> val, err |-> err]

\* ------------------------------------------------------------------------
\* Field translation layer: functions
\* ------------------------------------------------------------------------
\* Each function that ranges over a map takes the order in which the range
\* visits the keys as an extra argument.

\* ToDBSelectors reading the allow-list without the "ok" test: a field that
\* is no key of the allow-list translates to the zero DBField.
RECURSIVE ToDBSelectorsLoop_noFieldCheck(_, _, _, _)
ToDBSelectorsLoop_noFieldCheck(s, apiToDBFieldMap, keys, databaseSelectors) ==
    IF keys = <<>>
      THEN Ret(Slice(databaseSelectors), Nil)
      ELSE
        LET field == Head(keys)
            selector == s[field]
            lowerPredicate == ToLower(selector.Predicate)
        IN IF lowerPredicate \notin DOMAIN ToDBPredicates
             THEN Ret(NilSlice, ErrInvalidPredicate(selector.Predicate))
             ELSE ToDBSelectorsLoop_noFieldCheck(s, apiToDBFieldMap, Tail(keys),
                      Append(databaseSelectors,
                             [Table |-> DBFieldAt(apiToDBFieldMap, field).Table,
                              Column |-> DBFieldAt(apiToDBFieldMap, field).Column,
                              Predicate |-> ToDBPredicates[lowerPredicate],
                              Value |-> selector.Value]))

\* Selectors.ToDBSelectors: the loop body from the entry keys[1] on, with the
\* slice built so far.
RECURSIVE ToDBSelectorsLoop(_, _, _, _)
ToDBSelectorsLoop(s, apiToDBFieldMap, keys, databaseSelectors) ==
    IF keys = <<>>
      THEN Ret(Slice(databaseSelectors), Nil)
      ELSE
        LET field == Head(keys)
            selector == s[field]
            lowerPredicate == ToLower(selector.Predicate)
        IN IF lowerPredicate \notin DOMAIN ToDBPredicates
             THEN Ret(NilSlice, ErrInvalidPredicate(selector.Predicate))
             ELSE IF field \notin DOMAIN apiToDBFieldMap
               THEN Ret(NilSlice, ErrInvalidDatabaseSelectorTranslation(field))
               ELSE ToDBSelectorsLoop(s, apiToDBFieldMap, Tail(keys),
                        Append(databaseSelectors,
                               [Table |-> apiToDBFieldMap[field].Table,
                                Column |-> apiToDBFieldMap[field].Column,
                                Predicate |-> ToDBPredicates[lowerPredicate],
                                Value |-> selector.Value]))

\* ToDBSelectors returning after the first entry of the range.
ToDBSelectors_firstEntryOnly(s, apiToDBFieldMap, keys) ==
    ToDBSelectorsLoop(s, apiToDBFieldMap,
                      IF keys = <<>> THEN keys ELSE <<Head(keys)>>, <<>>)

ToDBSelectors(s, apiToDBFieldMap, keys) ==
    ToDBSelectorsLoop(s, apiToDBFieldMap, keys, <<>>)

\* Orders.dedup: copies every entry whose field it has not seen yet.
RECURSIVE dedupLoop(_, _, _, _)
dedupLoop(o, keys, dedupd, existing) ==
    IF keys = <<>>
      THEN dedupd
      ELSE LET field == Head(keys)
           IN IF field \notin existing
                THEN dedupLoop(o, Tail(keys), dedupd @@ (field :> o[field]),
                               existing \cup {field})
                ELSE dedupLoop(o, Tail(keys), dedupd, existing)

dedup(o, keys) == dedupLoop(o, keys, <<>>, {})

\* Orders.ToDBOrders.
RECURSIVE ToDBOrdersLoop(_, _, _, _)
ToDBOrdersLoop(o, apiToDBFieldMap, keys, dbOrders) ==
    IF keys = <<>>
      THEN Ret(Slice(dbOrders), Nil)
      ELSE
        LET field == Head(keys)
            direction == o[field]
            translatedField == DBFieldAt(apiToDBFieldMap, field)
            dbColumn == translatedField.Column
            lowerDir == ToLower(direction)
        IN IF dbColumn = ""
             THEN Ret(NilSlice, ErrInvalidOrderField(field))
             ELSE ToDBOrdersLoop(o, apiToDBFieldMap, Tail(keys),
                      Append(dbOrders,
                             [Table |-> translatedField.Table,
                              Field |-> dbColumn,
                              Direction |-> StringAt(DirectionsToDB, lowerDir)]))

ToDBOrders(o, apiToDBFieldMap, keys) ==
    ToDBOrdersLoop(o, apiToDBFieldMap, keys, <<>>)

\* Orders.TranslateToDBOrders; dkeys is the order of dedup's range, keys the
\* order of ToDBOrders' range.
TranslateToDBOrders(o, apiToDBFieldMap, dkeys, keys) ==
    LET r == ToDBOrders(dedup(o, dkeys), apiToDBFieldMap, keys)
    IN IF r.err # Nil
         THEN Ret(NilSlice, Errorf("TranslateToDBOrders", r.err))
         ELSE Ret(r.val, Nil)

\* Updates.ToDBUpdates.
RECURSIVE ToDBUpdatesLoop(_, _, _, _)
ToDBUpdatesLoop(updates, apiToDBFieldMap, keys, dbUpdates) ==
    IF keys = <<>>
      THEN Ret(Slice(dbUpdates), Nil)
      ELSE
        LET field == Head(keys)
            value == updates[field]
        IN IF field \notin DOMAIN apiToDBFieldMap
             THEN Ret(NilSlice, ErrInvalidDatabaseUpdateTranslation(field))
             ELSE ToDBUpdatesLoop(updates, apiToDBFieldMap, Tail(keys),
                      Append(dbUpdates,
                             [Field |-> apiToDBFieldMap[field].Column,
                              Value |-> value]))

ToDBUpdates(updates, apiToDBFieldMap, keys) ==
    ToDBUpdatesLoop(updates, apiToDBFieldMap, keys, <<>>)

\* A pointer to a parsed input: nil, or the struct it points to.
NilInput == [nil |-> TRUE]

\* input.Page and Page.ToDBPage.
NilPage == [nil |-> TRUE]
Page(offset, limit) == [nil |-> FALSE, Offset |-> offset, Limit |-> limit]
ToDBPage(p) == [Offset |-> p.Offset, Limit |-> p.Limit]

\* input.ParseGetInput.
ParseGetInput(apiToDBFields, selectors, orders, inputPage, maxPage, count, dkeys, okeys, skeys) ==
    LET o == TranslateToDBOrders(orders, apiToDBFields, dkeys, okeys)
        page == IF inputPage.nil THEN Page(0, maxPage) ELSE inputPage
        s == ToDBSelectors(selectors, apiToDBFields, skeys)
    IN IF o.err # Nil THEN Ret(NilInput, o.err)
       ELSE IF s.err # Nil THEN Ret(NilInput, s.err)
       ELSE Ret([nil |-> FALSE, Orders |-> o.val, Selectors |-> s.val,
                 Page |-> ToDBPage(page), Count |-> count], Nil)

\* ParseUpdateInput without the test of len(dbUpdates).
ParseUpdateInput_noUpdateCheck(apiToDBFields, selectors, updates, upsert, skeys, ukeys) ==
    LET s == ToDBSelectors(selectors, apiToDBFields, skeys)
        u == ToDBUpdates(updates, apiToDBFields, ukeys)
    IN IF s.err # Nil THEN Ret(NilInput, s.err)
       ELSE IF Len(s.val.elems) = 0 THEN Ret(NilInput, ErrNeedAtLeastOneSelector)
       ELSE IF u.err # Nil THEN Ret(NilInput, u.err)
       ELSE Ret([nil |-> FALSE, Selectors |-> s.val, Updates |-> u.val,
                 Upsert |-> upsert], Nil)

\* input.ParseUpdateInput.
ParseUpdateInput(apiToDBFields, selectors, updates, upsert, skeys, ukeys) ==
    LET s == ToDBSelectors(selectors, apiToDBFields, skeys)
        u == ToDBUpdates(updates, apiToDBFields, ukeys)
    IN IF s.err # Nil THEN Ret(NilInput, s.err)
       ELSE IF Len(s.val.elems) = 0 THEN Ret(NilInput, ErrNeedAtLeastOneSelector)
       ELSE IF u.err # Nil THEN Ret(NilInput, u.err)
       ELSE IF Len(u.val.elems) = 0 THEN Ret(NilInput, ErrNeedAtLeastOneUpdate)
       ELSE Ret([nil |-> FALSE, Selectors |-> s.val, Updates |-> u.val,
                 Upsert |-> upsert], Nil)

\* ParseDeleteInput returning the input built so far together with the
\* error of the orders.
ParseDeleteInput_keepSelectors(apiToDBFields, selectors, orders, limit, skeys, dkeys, okeys) ==
    LET s == ToDBSelectors(selectors, apiToDBFields, skeys)
        o == TranslateToDBOrders(orders, apiToDBFields, dkeys, okeys)
    IN IF s.err # Nil THEN Ret(NilInput, s.err)
       ELSE IF Len(s.val.elems) = 0 THEN Ret(NilInput, ErrNeedAtLeastOneSelector)
       ELSE IF o.err # Nil
         THEN Ret([nil |-> FALSE, Selectors |-> s.val,
                   DeleteOpts |-> [Limit |-> limit, Orders |-> NilSlice]], o.err)
       ELSE Ret([nil |-> FALSE, Selectors |-> s.val,
                 DeleteOpts |-> [Limit |-> limit, Orders |-> o.val]], Nil)

\* input.ParseDeleteInput.
ParseDeleteInput(apiToDBFields, selectors, orders, limit, skeys, dkeys, okeys) ==
    LET s == ToDBSelectors(selectors, apiToDBFields, skeys)
        o == TranslateToDBOrders(orders, apiToDBFields, dkeys, okeys)
    IN IF s.err # Nil THEN Ret(NilInput, s.err)
       ELSE IF Len(s.val.elems) = 0 THEN Ret(NilInput, ErrNeedAtLeastOneSelector)
       ELSE IF o.err # Nil THEN Ret(NilInput, o.err)
       ELSE Ret([nil |-> FALSE, Selectors |-> s.val,
                 DeleteOpts |-> [Limit |-> limit, Orders |-> o.val]], Nil)

\* ------------------------------------------------------------------------
\* Field translation layer: inputs and calls
\* ------------------------------------------------------------------------

\* The API field names callers use. An allow-list maps some of them to a
\* DBField; the DBField of "blank" has an empty column.
FieldNames == {"age", "name", "blank"}
DBFieldOf(field) ==
    IF field = "blank" THEN DBField("users", "") ELSE DBField("users", field)
AllowLists == {[f \in S |-> DBFieldOf(f)] : S \in SUBSET FieldNames}

\* The maps from at most MaxEntries of the keys to vals.
BoundedMaps(keys, vals) ==
    UNION {[S -> vals] : S \in {T \in SUBSET keys : Cardinality(T) <= MaxEntries}}

\* The orders in which a range over a map with key set S can visit the keys.
RangeOrders(S) ==
    {p \in [1..Cardinality(S) -> S] :
        \A i, j \in 1..Cardinality(S) : i # j => p[i] # p[j]}

\* Predicate tokens: aliases as written in the table, other spellings of
\* them, and a token that is no alias.
PredicateTokens ==
    {Greater, Gt, <<"G", "T">>, <<"G", "t">>, Eq, <<"l", "t">>, Lt,
     <<"l", "i", "k", "e">>}
Values == {1, 18}
SelectorInputs ==
    BoundedMaps(FieldNames, [Predicate : PredicateTokens, Value : Values])

\* Direction tokens: two spellings of directions and a token that is none.
DirectionTokens == {DirectionAsc, <<"D", "E", "S", "C">>, <<"u", "p">>}
OrderInputs == BoundedMaps(FieldNames, DirectionTokens)

UpdateInputs == BoundedMaps(FieldNames, Values)

\* The selectors handed to the Parse*Input functions.
ParseSelectorInputs ==
    BoundedMaps(FieldNames,
                [Predicate : {Eq, <<"l", "i", "k", "e">>}, Value : {18}])

\* The orders handed to the Parse*Input functions.
ParseOrderInputs == BoundedMaps(FieldNames, {DirectionAsc, <<"u", "p">>})

\* The pages and row limits handed to the Parse*Input functions.
PageInputs == {NilPage, Page(0, 1), Page(-1, MaxPageArg + 1)}
LimitInputs == {0, 1}

NoCall ==
    [fn |-> "none", allow |-> <<>>, selectors |-> <<>>, orders |-> <<>>,
     updates |-> <<>>, page |-> NilPage, maxPage |-> 0, count |-> FALSE,
     upsert |-> FALSE, limit |-> 0]

InitIn ==
    /\ inCall = NoCall
    /\ inRet = Ret(NilSlice, Nil)

CallToDBSelectors(allow, s, keys) ==
    /\ inCall.fn = "none"
    /\ inCall' = [NoCall EXCEPT !.fn = "ToDBSelectors", !.allow = allow,
                                !.selectors = s]
    /\ inRet' = ToDBSelectors(s, allow, keys)
    /\ UNCHANGED nonInVars

CallToDBOrders(allow, o, keys) ==
    /\ inCall.fn = "none"
    /\ inCall' = [NoCall EXCEPT !.fn = "ToDBOrders", !.allow = allow,
                                !.orders = o]
    /\ inRet' = ToDBOrders(o, allow, keys)
    /\ UNCHANGED nonInVars

CallTranslateToDBOrders(allow, o, dkeys, keys) ==
    /\ inCall.fn = "none"
    /\ inCall' = [NoCall EXCEPT !.fn = "TranslateToDBOrders", !.allow = allow,
                                !.orders = o]
    /\ inRet' = TranslateToDBOrders(o, allow, dkeys, keys)
    /\ UNCHANGED nonInVars

CallToDBUpdates(allow, u, keys) ==
    /\ inCall.fn = "none"
    /\ inCall' = [NoCall EXCEPT !.fn = "ToDBUpdates", !.allow = allow,
                                !.updates = u]
    /\ inRet' = ToDBUpdates(u, allow, keys)
    /\ UNCHANGED nonInVars

CallParseGetInput(allow, s, o, page, maxPage, count, dkeys, okeys, skeys) ==
    /\ inCall.fn = "none"
    /\ inCall' = [NoCall EXCEPT !.fn = "ParseGetInput", !.allow = allow,
                                !.selectors = s, !.orders = o, !.page = page,
                                !.maxPage = maxPage, !.count = count]
    /\ inRet' = ParseGetInput(allow, s, o, page, maxPage, count,
                              dkeys, okeys, skeys)
    /\ UNCHANGED nonInVars

CallParseUpdateInput(allow, s, u, upsert, skeys, ukeys) ==
    /\ inCall.fn = "none"
    /\ inCall' = [NoCall EXCEPT !.fn = "ParseUpdateInput", !.allow = allow,
                                !.selectors = s, !.updates = u,
                                !.upsert = upsert]
    /\ inRet' = ParseUpdateInput(allow, s, u, upsert, skeys, ukeys)
    /\ UNCHANGED nonInVars

CallParseDeleteInput(allow, s, o, limit, skeys, dkeys, okeys) ==
    /\ inCall.fn = "none"
    /\ inCall' = [NoCall EXCEPT !.fn = "ParseDeleteInput", !.allow = allow,
                                !.selectors = s, !.orders = o, !.limit = limit]
    /\ inRet' = ParseDeleteInput(allow, s, o, limit, skeys, dkeys, okeys)
    /\ UNCHANGED nonInVars

\* ------------------------------------------------------------------------
\* Execution primitives: values and functions
\* ------------------------------------------------------------------------

\* The errors the handles behind a primitive can return: Preparer.Prepare,
\* Stmt.Exec or DB.Exec, Stmt.Query or DB.Query, Stmt.Close, a scan of a row
\* (Row.Scan or Getter.ScanRow), Rows.Err after the iteration, and Row.Err.
ErrPrepare == <<"prepare error">>
ErrExec == <<"exec error">>
ErrQuery == <<"query error">>
ErrClose == <<"close error">>
ErrScan == <<"scan error">>
ErrRows == <<"rows error">>
ErrRow == <<"row error">>
ErrLastInsertId == <<"last insert id error">>

\* How the handles behind one call behave: the error of each of their
\* methods (Nil: it succeeds), the number of rows Rows.Next delivers before
\* it returns false, the row whose scan fails (0: none), and the error of
\* Result.LastInsertId.
DefaultEnv ==
    [prepareErr |-> Nil, execErr |-> Nil, queryErr |-> Nil, closeErr |-> Nil,
     nrows |-> 0, scanFailAt |-> 0, rowsErr |-> Nil, rowErr |-> Nil,
     idErr |-> Nil]

\* ErrorChecker.Check: the error the hook makes of a raw error.
Check(err) == <<"checked">> \o err

\* What a primitive hands back: the value and the error it returns, whether
\* it returns an open row cursor and an open statement, and the calls it
\* made on the handles and on the hook, in order.
OpsRet(log, val, err, rows, stmt) ==
    [log |-> log, val |-> val, err |-> err, rows |-> rows, stmt |-> stmt]

\* `if errorChecker != nil { return ..., errorChecker.Check(err) }; return
\* ..., err` on a result r that holds an error.
CheckHook(errorChecker, r) ==
    IF errorChecker
      THEN [r EXCEPT !.log = Append(@, "Check"), !.err = Check(@)]
      ELSE r

\* doExec closing the statement only after a successful Stmt.Exec.
doExec_closeOnSuccess(env) ==
    IF env.prepareErr # Nil
      THEN OpsRet(<<"Prepare">>, NilSlice, env.prepareErr, FALSE, FALSE)
      ELSE IF env.execErr # Nil
        THEN OpsRet(<<"Prepare", "Stmt.Exec">>, NilSlice, env.execErr,
                    FALSE, FALSE)
        ELSE OpsRet(<<"Prepare", "Stmt.Exec", "Stmt.Close">>, Slice(<<1>>), Nil,
                    FALSE, FALSE)

\* repository.doExec; the deferred stmt.Close runs after stmt.Exec.
doExec(env) ==
    IF env.prepareErr # Nil
      THEN OpsRet(<<"Prepare">>, NilSlice, env.prepareErr, FALSE, FALSE)
      ELSE IF env.execErr # Nil
        THEN OpsRet(<<"Prepare", "Stmt.Exec", "Stmt.Close">>, NilSlice,
                    env.execErr, FALSE, FALSE)
        ELSE OpsRet(<<"Prepare", "Stmt.Exec", "Stmt.Close">>, Slice(<<1>>), Nil,
                    FALSE, FALSE)

\* repository.doExecRaw.
doExecRaw(env) ==
    IF env.execErr # Nil
      THEN OpsRet(<<"DB.Exec">>, NilSlice, env.execErr, FALSE, FALSE)
      ELSE OpsRet(<<"DB.Exec">>, Slice(<<1>>), Nil, FALSE, FALSE)

\* doQuery returning the error of Stmt.Query without closing the statement.
doQuery_noClose(env) ==
    IF env.prepareErr # Nil
      THEN OpsRet(<<"Prepare">>, NilSlice, env.prepareErr, FALSE, FALSE)
      ELSE IF env.queryErr # Nil
        THEN OpsRet(<<"Prepare", "Stmt.Query">>, NilSlice, env.queryErr,
                    FALSE, FALSE)
        ELSE OpsRet(<<"Prepare", "Stmt.Query">>, NilSlice, Nil, TRUE, TRUE)

\* doQuery returning the error of Stmt.Query alone when Stmt.Close fails too.
doQuery_queryErrOnly(env) ==
    IF env.prepareErr # Nil
      THEN OpsRet(<<"Prepare">>, NilSlice, env.prepareErr, FALSE, FALSE)
      ELSE IF env.queryErr # Nil
        THEN OpsRet(<<"Prepare", "Stmt.Query", "Stmt.Close">>, NilSlice,
                    env.queryErr, FALSE, FALSE)
        ELSE OpsRet(<<"Prepare", "Stmt.Query">>, NilSlice, Nil, TRUE, TRUE)

\* fmt.Errorf("query error: %w; additionally, stmt.Close error: %w", err,
\* closeErr).
QueryAndCloseError(err, closeErr) ==
    <<"query error: ">> \o err \o <<"; additionally, stmt.Close error: ">>
        \o closeErr

\* repository.doQuery.
doQuery(env) ==
    IF env.prepareErr # Nil
      THEN OpsRet(<<"Prepare">>, NilSlice, env.prepareErr, FALSE, FALSE)
      ELSE IF env.queryErr # Nil
        THEN OpsRet(<<"Prepare", "Stmt.Query", "Stmt.Close">>, NilSlice,
                    IF env.closeErr # Nil
                      THEN QueryAndCloseError(env.queryErr, env.closeErr)
                      ELSE env.queryErr,
                    FALSE, FALSE)
        ELSE OpsRet(<<"Prepare", "Stmt.Query">>, NilSlice, Nil, TRUE, TRUE)

\* repository.doQueryRaw.
doQueryRaw(env) ==
    IF env.queryErr # Nil
      THEN OpsRet(<<"DB.Query">>, NilSlice, env.queryErr, FALSE, FALSE)
      ELSE OpsRet(<<"DB.Query">>, NilSlice, Nil, TRUE, FALSE)

\* Exec passing the nil-preparer error through the hook.
Exec_checkNil(nilPreparer, errorChecker, env) ==
    IF nilPreparer
      THEN CheckHook(errorChecker,
               OpsRet(<<>>, NilSlice, <<"Exec: preparer is nil">>, FALSE, FALSE))
      ELSE LET r == doExec(env)
           IN IF r.err # Nil THEN CheckHook(errorChecker, r) ELSE r

\* repository.Exec.
Exec(nilPreparer, errorChecker, env) ==
    IF nilPreparer
      THEN OpsRet(<<>>, NilSlice, <<"Exec: preparer is nil">>, FALSE, FALSE)
      ELSE LET r == doExec(env)
           IN IF r.err # Nil THEN CheckHook(errorChecker, r) ELSE r

\* repository.Query.
Query(nilPreparer, errorChecker, env) ==
    IF nilPreparer
      THEN OpsRet(<<>>, NilSlice, <<"Query: preparer is nil">>, FALSE, FALSE)
      ELSE LET r == doQuery(env)
           IN IF r.err # Nil THEN CheckHook(errorChecker, r) ELSE r

\* repository.ExecRaw.
ExecRaw(nilDB, errorChecker, env) ==
    IF nilDB
      THEN OpsRet(<<>>, NilSlice, <<"ExecRaw: db is nil">>, FALSE, FALSE)
      ELSE LET r == doExecRaw(env)
           IN IF r.err # Nil THEN CheckHook(errorChecker, r) ELSE r

\* repository.QueryRaw.
QueryRaw(nilDB, errorChecker, env) ==
    IF nilDB
      THEN OpsRet(<<>>, NilSlice, <<"QueryRaw: db is nil">>, FALSE, FALSE)
      ELSE LET r == doQueryRaw(env)
           IN IF r.err # Nil THEN CheckHook(errorChecker, r) ELSE r

\* What a scan helper hands back: the value, the error, and the calls made.
ScanRet(log, val, err) == [log |-> log, val |-> val, err |-> err]

\* repository.RowToAny on a row holding the value id: scanErr is what
\* row.Scan returns and rowErr what row.Err returns.
RowToAny(scanErr, rowErr, id) ==
    IF scanErr # Nil THEN ScanRet(<<"Scan">>, NilSlice, scanErr)
    ELSE IF rowErr # Nil THEN ScanRet(<<"Scan", "Err">>, NilSlice, rowErr)
    ELSE ScanRet(<<"Scan", "Err">>, Slice(<<id>>), Nil)

\* repository.RowToEntity: as RowToAny, scanning with entity.ScanRow.
RowToEntity(scanErr, rowErr, id) ==
    IF scanErr # Nil THEN ScanRet(<<"ScanRow">>, NilSlice, scanErr)
    ELSE IF rowErr # Nil THEN ScanRet(<<"ScanRow", "Err">>, NilSlice, rowErr)
    ELSE ScanRet(<<"ScanRow", "Err">>, Slice(<<id>>), Nil)

\* The error of the scan of row i.
ScanErrAt(env, i) == IF env.scanFailAt = i THEN ErrScan ELSE Nil

\* repository.RowsToAny: the loop from row i on, with the calls made and the
\* results appended so far. rows.Err is nil while rows.Next delivers rows.
RECURSIVE RowsToAnyLoop(_, _, _, _)
RowsToAnyLoop(env, i, log, results) ==
    IF i > env.nrows
      THEN IF env.rowsErr # Nil
             THEN ScanRet(log \o <<"Next", "Err">>, NilSlice, env.rowsErr)
             ELSE ScanRet(log \o <<"Next", "Err">>, results, Nil)
      ELSE LET r == RowToAny(ScanErrAt(env, i), Nil, i)
           IN IF r.err # Nil
                THEN ScanRet(log \o <<"Next">> \o r.log, NilSlice, r.err)
                ELSE RowsToAnyLoop(env, i + 1, log \o <<"Next">> \o r.log,
                                   Slice(results.elems \o r.val.elems))

\* `var results []T` is a nil slice.
RowsToAny(env) == RowsToAnyLoop(env, 1, <<>>, NilSlice)

\* repository.RowsToEntities: the loop from row i on.
RECURSIVE RowsToEntitiesLoop(_, _, _, _)
RowsToEntitiesLoop(env, i, log, results) ==
    IF i > env.nrows
      THEN IF env.rowsErr # Nil
             THEN ScanRet(log \o <<"Next", "Err">>, NilSlice, env.rowsErr)
             ELSE ScanRet(log \o <<"Next", "Err">>, results, Nil)
      ELSE IF ScanErrAt(env, i) # Nil
        THEN ScanRet(log \o <<"Next", "ScanRow">>, NilSlice, ScanErrAt(env, i))
        ELSE RowsToEntitiesLoop(env, i + 1, log \o <<"Next", "ScanRow">>,
                                Slice(Append(results.elems, i)))

\* `results := []T{}` is an empty slice that is not nil.
RowsToEntities(env) == RowsToEntitiesLoop(env, 1, <<>>, Slice(<<>>))

\* repository.QuerySingleValue; the deferred stmt.Close runs after the hook.
QuerySingleValue(nilPreparer, errorChecker, env) ==
    IF nilPreparer
      THEN OpsRet(<<>>, NilSlice, <<"QuerySingleValue: preparer is nil">>,
                  FALSE, FALSE)
      ELSE IF env.prepareErr # Nil
        THEN OpsRet(<<"Prepare">>, NilSlice, env.prepareErr, FALSE, FALSE)
        ELSE
          LET r == RowToAny(ScanErrAt(env, 1), env.rowErr, 1)
              q == OpsRet(<<"Prepare", "Stmt.QueryRow">> \o r.log, r.val,
                          r.err, FALSE, FALSE)
              c == IF q.err # Nil THEN CheckHook(errorChecker, q) ELSE q
          IN [c EXCEPT !.log = Append(@, "Stmt.Close")]

\* repository.QuerySingleEntity.
QuerySingleEntity(nilPreparer, errorChecker, env) ==
    IF nilPreparer
      THEN OpsRet(<<>>, NilSlice, <<"QuerySingleEntity: preparer is nil">>,
                  FALSE, FALSE)
      ELSE IF env.prepareErr # Nil
        THEN OpsRet(<<"Prepare">>, NilSlice, env.prepareErr, FALSE, FALSE)
        ELSE
          LET r == RowToEntity(ScanErrAt(env, 1), env.rowErr, 1)
              q == OpsRet(<<"Prepare", "Stmt.QueryRow">> \o r.log, r.val,
                          r.err, FALSE, FALSE)
              c == IF q.err # Nil THEN CheckHook(errorChecker, q) ELSE q
          IN [c EXCEPT !.log = Append(@, "Stmt.Close")]

\* QueryEntities closing the cursor and the statement only when every row
\* was scanned.
QueryEntities_leakOnScanError(nilPreparer, errorChecker, env) ==
    LET q == Query(nilPreparer, errorChecker, env)
        e == RowsToEntities(env)
    IN IF q.err # Nil THEN OpsRet(q.log, NilSlice, q.err, FALSE, FALSE)
       ELSE IF e.err # Nil
         THEN OpsRet(q.log \o e.log, e.val, e.err, FALSE, FALSE)
         ELSE OpsRet(q.log \o e.log \o <<"Rows.Close", "Stmt.Close">>,
                     e.val, e.err, FALSE, FALSE)

\* repository.QueryEntities; the deferred rows.Close and stmt.Close run in
\* that order after RowsToEntities, whose error is returned as it is.
QueryEntities(nilPreparer, errorChecker, env) ==
    LET q == Query(nilPreparer, errorChecker, env)
        e == RowsToEntities(env)
    IN IF q.err # Nil THEN OpsRet(q.log, NilSlice, q.err, FALSE, FALSE)
       ELSE OpsRet(q.log \o e.log \o <<"Rows.Close", "Stmt.Close">>,
                   e.val, e.err, FALSE, FALSE)

\* customRepo.QueryCustom.
QueryCustom(nilPreparer, errorChecker, env) ==
    IF nilPreparer
      THEN OpsRet(<<>>, NilSlice, <<"QueryCustom: preparer is nil">>,
                  FALSE, FALSE)
      ELSE
        LET q == Query(FALSE, errorChecker, env)
            e == RowsToAny(env)
        IN IF q.err # Nil THEN OpsRet(q.log, NilSlice, q.err, FALSE, FALSE)
           ELSE OpsRet(q.log \o e.log \o <<"Rows.Close", "Stmt.Close">>,
                       e.val, e.err, FALSE, FALSE)

\* Insert returning the error of Exec alone.
Insert_ignoreIdErr(nilPreparer, errorChecker, env) ==
    LET x == Exec(nilPreparer, errorChecker, env)
    IN IF x.err # Nil THEN x
       ELSE OpsRet(Append(x.log, "Result.LastInsertId"), x.val, Nil,
                   FALSE, FALSE)

\* mutatorRepo.Insert, with errorChecker the hook of the repository; the
\* entity is returned on every path.
Insert(nilPreparer, errorChecker, env) ==
    LET x == Exec(nilPreparer, errorChecker, env)
        r == OpsRet(Append(x.log, "Result.LastInsertId"), x.val, env.idErr,
                    FALSE, FALSE)
    IN IF x.err # Nil THEN x
       ELSE IF r.err # Nil /\ errorChecker THEN CheckHook(errorChecker, r)
       ELSE r

\* rawQueryer.Query: Query without a hook; the deferred stmt.Close runs when
\* the rows are returned.
rawQueryerQuery(nilPreparer, env) ==
    LET q == Query(nilPreparer, FALSE, env)
    IN IF q.err # Nil THEN OpsRet(q.log, NilSlice, q.err, FALSE, FALSE)
       ELSE OpsRet(Append(q.log, "Stmt.Close"), NilSlice, Nil, TRUE, FALSE)

\* ------------------------------------------------------------------------
\* Execution primitives: inputs and calls
\* ------------------------------------------------------------------------
ErrorOrNil(err) == {Nil, err}

\* The handles behind Exec and ExecRaw.
ExecEnvs ==
    {[DefaultEnv EXCEPT !.prepareErr = p, !.execErr = x] :
        p \in ErrorOrNil(ErrPrepare), x \in ErrorOrNil(ErrExec)}

\* The handles behind Insert.
InsertEnvs ==
    {[e EXCEPT !.idErr = i] : e \in ExecEnvs, i \in ErrorOrNil(ErrLastInsertId)}

\* The handles behind Query and QueryRaw.
QueryEnvs ==
    {[DefaultEnv EXCEPT !.prepareErr = p, !.queryErr = q, !.closeErr = c] :
        p \in ErrorOrNil(ErrPrepare), q \in ErrorOrNil(ErrQuery),
        c \in ErrorOrNil(ErrClose)}

\* The handles behind QuerySingleValue and QuerySingleEntity.
RowEnvs ==
    {[DefaultEnv EXCEPT !.prepareErr = p, !.nrows = 1, !.scanFailAt = s,
                        !.rowErr = r, !.closeErr = c] :
        p \in ErrorOrNil(ErrPrepare), s \in {0, 1}, r \in ErrorOrNil(ErrRow),
        c \in ErrorOrNil(ErrClose)}

\* The handles behind QueryEntities and QueryCustom.
RowsEnvs ==
    UNION {{[e EXCEPT !.nrows = n, !.scanFailAt = s, !.rowsErr = r] :
              s \in 0..n, r \in ErrorOrNil(ErrRows)} :
           e \in QueryEnvs, n \in 0..MaxDBRows}

\* The handles a call is made with: none matter to a call with a nil handle.
EnvsOf(nilHandle, envs) == IF nilHandle THEN {DefaultEnv} ELSE envs

NoDbCall ==
    [fn |-> "none", nilHandle |-> FALSE, errorChecker |-> FALSE,
     env |-> DefaultEnv]

InitDb ==
    /\ dbCall = NoDbCall
    /\ dbRet = OpsRet(<<>>, NilSlice, Nil, FALSE, FALSE)

DbCalled(fn, nilHandle, errorChecker, env) ==
    [fn |-> fn, nilHandle |-> nilHandle, errorChecker |-> errorChecker,
     env |-> env]

CallExec(nilHandle, errorChecker, env) ==
    /\ dbCall.fn = "none"
    /\ dbCall' = DbCalled("Exec", nilHandle, errorChecker, env)
    /\ dbRet' = Exec(nilHandle, errorChecker, env)
    /\ UNCHANGED nonDbVars

CallQuery(nilHandle, errorChecker, env) ==
    /\ dbCall.fn = "none"
    /\ dbCall' = DbCalled("Query", nilHandle, errorChecker, env)
    /\ dbRet' = Query(nilHandle, errorChecker, env)
    /\ UNCHANGED nonDbVars

CallExecRaw(nilHandle, errorChecker, env) ==
    /\ dbCall.fn = "none"
    /\ dbCall' = DbCalled("ExecRaw", nilHandle, errorChecker, env)
    /\ dbRet' = ExecRaw(nilHandle, errorChecker, env)
    /\ UNCHANGED nonDbVars

CallQueryRaw(nilHandle, errorChecker, env) ==
    /\ dbCall.fn = "none"
    /\ dbCall' = DbCalled("QueryRaw", nilHandle, errorChecker, env)
    /\ dbRet' = QueryRaw(nilHandle, errorChecker, env)
    /\ UNCHANGED nonDbVars

CallQuerySingleValue(nilHandle, errorChecker, env) ==
    /\ dbCall.fn = "none"
    /\ dbCall' = DbCalled("QuerySingleValue", nilHandle, errorChecker, env)
    /\ dbRet' = QuerySingleValue(nilHandle, errorChecker, env)
    /\ UNCHANGED nonDbVars

CallQuerySingleEntity(nilHandle, errorChecker, env) ==
    /\ dbCall.fn = "none"
    /\ dbCall' = DbCalled("QuerySingleEntity", nilHandle, errorChecker, env)
    /\ dbRet' = QuerySingleEntity(nilHandle, errorChecker, env)
    /\ UNCHANGED nonDbVars

CallQueryEntities(nilHandle, errorChecker, env) ==
    /\ dbCall.fn = "none"
    /\ dbCall' = DbCalled("QueryEntities", nilHandle, errorChecker, env)
    /\ dbRet' = QueryEntities(nilHandle, errorChecker, env)
    /\ UNCHANGED nonDbVars

CallQueryCustom(nilHandle, errorChecker, env) ==
    /\ dbCall.fn = "none"
    /\ dbCall' = DbCalled("QueryCustom", nilHandle, errorChecker, env)
    /\ dbRet' = QueryCustom(nilHandle, errorChecker, env)
    /\ UNCHANGED nonDbVars

CallInsert(nilHandle, errorChecker, env) ==
    /\ dbCall.fn = "none"
    /\ dbCall' = DbCalled("Insert", nilHandle, errorChecker, env)
    /\ dbRet' = Insert(nilHandle, errorChecker, env)
    /\ UNCHANGED nonDbVars

CallRawQueryerQuery(nilHandle, env) ==
    /\ dbCall.fn = "none"
    /\ dbCall' = DbCalled("rawQueryer.Query", nilHandle, FALSE, env)
    /\ dbRet' = rawQueryerQuery(nilHandle, env)
    /\ UNCHANGED nonDbVars

\* ------------------------------------------------------------------------
\* Middleware chain
\* ------------------------------------------------------------------------
\* A middleware is known by its label and behaves as the middlewares of the
\* tests: it records label-pre, calls next once, and records label-post. A
\* handler is the list of the middlewares wrapped around the final handler,
\* outermost first; the final handler alone is the empty list.
MiddlewareLabels == {"m1", "m2", "m3"}
FinalHandler == <<>>

MiddlewareLists ==
    UNION {[1..n -> MiddlewareLabels] : n \in 0..MaxMiddlewares}

\* The loop body of Chain with the loop running from the first middleware to
\* the last.
ChainStep_forward(middlewares, i, wrapped) ==
    <<middlewares[Len(middlewares) + 1 - i]>> \o wrapped

\* The loop body of Chain: wrapped = m.middlewares[i](wrapped).
ChainStep(middlewares, i, wrapped) == <<middlewares[i]>> \o wrapped

InitCh ==
    /\ chPc = "idle"
    /\ chMiddlewares = <<>>
    /\ chI = 0
    /\ chWrapped = FinalHandler
    /\ chDepth = 0
    /\ chDown = TRUE
    /\ chEvents = <<>>

\* Chain(h) is called on the list: wrapped := h; i := len(m.middlewares) - 1.
CallChain(middlewares) ==
    /\ chPc = "idle"
    /\ chPc' = "chain"
    /\ chMiddlewares' = middlewares
    /\ chI' = Len(middlewares)
    /\ chWrapped' = FinalHandler
    /\ UNCHANGED <<chDepth, chDown, chEvents>>
    /\ UNCHANGED nonChVars

\* One iteration of the loop of Chain.
ChainLoop ==
    /\ chPc = "chain"
    /\ chI >= 1
    /\ chWrapped' = ChainStep(chMiddlewares, chI, chWrapped)
    /\ chI' = chI - 1
    /\ UNCHANGED <<chPc, chMiddlewares, chDepth, chDown, chEvents>>
    /\ UNCHANGED nonChVars

\* Chain returns wrapped, and a request is served by it.
ChainReturn ==
    /\ chPc = "chain"
    /\ chI = 0
    /\ chPc' = "serve"
    /\ chDepth' = 0
    /\ chDown' = TRUE
    /\ UNCHANGED <<chMiddlewares, chI, chWrapped, chEvents>>
    /\ UNCHANGED nonChVars

\* The request enters the next middleware, which records its pre-processing
\* and calls next.ServeHTTP.
MiddlewarePre ==
    /\ chPc = "serve"
    /\ chDown
    /\ chDepth < Len(chWrapped)
    /\ chEvents' = Append(chEvents, <<chWrapped[chDepth + 1], "pre">>)
    /\ chDepth' = chDepth + 1
    /\ UNCHANGED <<chPc, chMiddlewares, chI, chWrapped, chDown>>
    /\ UNCHANGED nonChVars

\* The request reaches the final handler.
ServeFinal ==
    /\ chPc = "serve"
    /\ chDown
    /\ chDepth = Len(chWrapped)
    /\ chEvents' = Append(chEvents, <<"final", "run">>)
    /\ chDown' = FALSE
    /\ UNCHANGED <<chPc, chMiddlewares, chI, chWrapped, chDepth>>
    /\ UNCHANGED nonChVars

\* next.ServeHTTP returns to the innermost middleware still open, which
\* records its post-processing.
MiddlewarePost ==
    /\ chPc = "serve"
    /\ ~chDown
    /\ chDepth >= 1
    /\ chEvents' = Append(chEvents, <<chWrapped[chDepth], "post">>)
    /\ chDepth' = chDepth - 1
    /\ UNCHANGED <<chPc, chMiddlewares, chI, chWrapped, chDown>>
    /\ UNCHANGED nonChVars

\* ServeHTTP of the outermost handler returns.
ServeReturn ==
    /\ chPc = "serve"
    /\ ~chDown
    /\ chDepth = 0
    /\ chPc' = "done"
    /\ UNCHANGED <<chMiddlewares, chI, chWrapped, chDepth, chDown, chEvents>>
    /\ UNCHANGED nonChVars

NextChain ==
    \/ /\ chPc = "idle"
       /\ \E middlewares \in MiddlewareLists : CallChain(middlewares)
    \/ ChainLoop
    \/ ChainReturn
    \/ MiddlewarePre
    \/ ServeFinal
    \/ MiddlewarePost
    \/ ServeReturn

\* ------------------------------------------------------------------------
\* Response wrapper
\* ------------------------------------------------------------------------
\* http.StatusOK and the status codes the callers write.
StatusOK == 200
StatusCreated == 201
StatusBadRequest == 400
StatusCodes == {StatusOK, StatusCreated, StatusBadRequest}

\* Header keys, header values and body chunks of the callers. An http.Header
\* is a function from its keys to the list of values of each.
HeaderKeys == {"X-Test", "X-Custom"}
HeaderValues == {"value1", "value2"}
Chunks == {"Hello"}
NoHeader == <<>>

\* http.Header.Add, http.Header.Set and http.Header.Del.
HeaderAdd(h, key, value) ==
    [k \in DOMAIN h \cup {key} |->
        IF k = key
          THEN (IF key \in DOMAIN h THEN h[key] ELSE <<>>) \o <<value>>
          ELSE h[k]]
HeaderSet(h, key, value) ==
    [k \in DOMAIN h \cup {key} |-> IF k = key THEN <<value>> ELSE h[k]]
HeaderDel(h, key) == [k \in DOMAIN h \ {key} |-> h[k]]

\* The loops of WriteHeader: every value of every key of the captured
\* headers is added to the headers of the underlying writer.
AddAll(to, from) ==
    [k \in DOMAIN to \cup DOMAIN from |->
        (IF k \in DOMAIN to THEN to[k] ELSE <<>>)
            \o (IF k \in DOMAIN from THEN from[k] ELSE <<>>)]

\* A ResWrap and its underlying writer after a call.
Wrapped(rw, w) == [rw |-> rw, w |-> w]

\* WriteHeader without the test of headerWritten.
WriteHeader_unguarded(rw, w, statusCode) ==
    Wrapped([rw EXCEPT !.statusCode = statusCode, !.headerWritten = TRUE],
            [w EXCEPT !.headers = AddAll(w.headers, rw.headers),
                      !.statusCodes = Append(@, statusCode)])

\* defaultResWrap.WriteHeader.
WriteHeader(rw, w, statusCode) ==
    IF ~rw.headerWritten
      THEN Wrapped([rw EXCEPT !.statusCode = statusCode,
                              !.headerWritten = TRUE],
                   [w EXCEPT !.headers = AddAll(w.headers, rw.headers),
                             !.statusCodes = Append(@, statusCode)])
      ELSE Wrapped(rw, w)

\* defaultResWrap.Write.
Write(rw, w, data) ==
    LET h == IF ~rw.headerWritten THEN WriteHeader(rw, w, rw.statusCode)
                                  ELSE Wrapped(rw, w)
    IN Wrapped([h.rw EXCEPT !.body = Append(@, data)],
               [h.w EXCEPT !.body = Append(@, data)])

\* NewResWrap on a fresh writer.
InitRw ==
    /\ resWrap = [headers |-> NoHeader, statusCode |-> StatusOK,
                  body |-> <<>>, headerWritten |-> FALSE]
    /\ underlying = [headers |-> NoHeader, statusCodes |-> <<>>, body |-> <<>>]
    /\ rwCalls = <<>>

\* rw.WriteHeader(statusCode).
CallWriteHeader(statusCode) ==
    /\ Len(rwCalls) < MaxResWrapCalls
    /\ LET r == WriteHeader(resWrap, underlying, statusCode)
       IN resWrap' = r.rw /\ underlying' = r.w
    /\ rwCalls' = Append(rwCalls, "WriteHeader")
    /\ UNCHANGED nonRwVars

\* rw.Write(data).
CallWrite(data) ==
    /\ Len(rwCalls) < MaxResWrapCalls
    /\ LET r == Write(resWrap, underlying, data)
       IN resWrap' = r.rw /\ underlying' = r.w
    /\ rwCalls' = Append(rwCalls, "Write")
    /\ UNCHANGED nonRwVars

\* rw.Header().Set(key, value): Header returns the captured map itself.
CallHeaderSet(key, value) ==
    /\ Len(rwCalls) < MaxResWrapCalls
    /\ resWrap' = [resWrap EXCEPT !.headers = HeaderSet(@, key, value)]
    /\ rwCalls' = Append(rwCalls, "Header.Set")
    /\ UNCHANGED underlying
    /\ UNCHANGED nonRwVars

\* rw.Header().Del(key).
CallHeaderDel(key) ==
    /\ Len(rwCalls) < MaxResWrapCalls
    /\ key \in DOMAIN resWrap.headers
    /\ resWrap' = [resWrap EXCEPT !.headers = HeaderDel(@, key)]
    /\ rwCalls' = Append(rwCalls, "Header.Del")
    /\ UNCHANGED underlying
    /\ UNCHANGED nonRwVars

NextResWrap ==
    \/ \E statusCode \in StatusCodes : CallWriteHeader(statusCode)
    \/ \E data \in Chunks : CallWrite(data)
    \/ \E key \in HeaderKeys, value \in HeaderValues : CallHeaderSet(key, value)
    \/ \E key \in HeaderKeys : CallHeaderDel(key)

\* ------------------------------------------------------------------------
\* Event emitter
\* ------------------------------------------------------------------------
EventTypes == {"rm", "concurrent"}

\* The zero eventListener, in the slots of a backing array never written.
NoListener == 0

\* The capacity append gives a slice that has outgrown its backing array.
GrownCap(cap) == IF cap = 0 THEN 1 ELSE 2 * cap

\* append(list, l) on the slice (array, len): in place when the capacity
\* allows, in a new array otherwise.
AppendListener(array, len, l) ==
    IF len < Len(array)
      THEN [array EXCEPT ![len + 1] = l]
      ELSE [k \in 1..GrownCap(Len(array)) |->
               IF k <= len THEN array[k]
               ELSE IF k = len + 1 THEN l ELSE NoListener]

\* append(list[:i], list[i+1:]...) for the element at i, counted from 1: the
\* elements behind it move one slot down in the same array, whose last used
\* slot keeps its value.
RemoveAt(array, len, i) ==
    [k \in 1..Len(array) |->
        IF k >= i /\ k < len THEN array[k + 1] ELSE array[k]]

\* The index of the first listener with the id in the slice, 0 when there
\* is none: the loop of RemoveListener.
IndexOf(array, len, id) ==
    IF \E k \in 1..len : array[k] = id
      THEN CHOOSE k \in 1..len :
              array[k] = id /\ \A j \in 1..(k - 1) : array[j] # id
      ELSE 0

InitEm ==
    /\ emArray = [t \in EventTypes |-> <<>>]
    /\ emLen = [t \in EventTypes |-> 0]
    /\ emCounter = 0
    /\ emPc = "idle"
    /\ emType = "rm"
    /\ emSnapLen = 0
    /\ emShared = FALSE
    /\ emOwn = <<>>
    /\ emIndex = 1
    /\ emInvoked = <<>>
    /\ emDuring = {}

\* The call of Emit is between its start and its return, for events of type t.
Emitting(t) == emPc = "loop" /\ emType = t

\* RegisterListener(eventType, callback), under the write lock. An append
\* that moves the slice to a new array leaves the old array to the local
\* slice of a running Emit.
RegisterListener(eventType) ==
    /\ emCounter < MaxListeners
    /\ emCounter' = emCounter + 1
    /\ emArray' = [emArray EXCEPT ![eventType] =
                      AppendListener(@, emLen[eventType], emCounter + 1)]
    /\ emLen' = [emLen EXCEPT ![eventType] = @ + 1]
    /\ IF Emitting(eventType) /\ emShared
            /\ emLen[eventType] = Len(emArray[eventType])
         THEN emShared' = FALSE /\ emOwn' = emArray[eventType]
         ELSE UNCHANGED <<emShared, emOwn>>
    /\ emDuring' = IF Emitting(eventType) THEN emDuring \cup {emCounter + 1}
                                          ELSE emDuring
    /\ UNCHANGED <<emPc, emType, emSnapLen, emIndex, emInvoked>>
    /\ UNCHANGED nonEmVars

\* RemoveListener(eventType, id), under the write lock.
RemoveListener(eventType, id) ==
    /\ LET i == IndexOf(emArray[eventType], emLen[eventType], id)
       IN IF i = 0
            THEN UNCHANGED <<emArray, emLen>>
            ELSE /\ emArray' = [emArray EXCEPT ![eventType] =
                                   RemoveAt(@, emLen[eventType], i)]
                 /\ emLen' = [emLen EXCEPT ![eventType] = @ - 1]
    /\ UNCHANGED <<emCounter, emPc, emType, emSnapLen, emShared, emOwn,
                   emIndex, emInvoked, emDuring>>
    /\ UNCHANGED nonEmVars

\* Emit(event) copies the slice header under the read lock and releases the
\* lock.
EmitStart(eventType) ==
    /\ emPc = "idle"
    /\ emPc' = "loop"
    /\ emType' = eventType
    /\ emSnapLen' = emLen[eventType]
    /\ emShared' = TRUE
    /\ emOwn' = <<>>
    /\ emIndex' = 1
    /\ emInvoked' = <<>>
    /\ emDuring' = {emArray[eventType][k] : k \in 1..emLen[eventType]}
    /\ UNCHANGED <<emArray, emLen, emCounter>>
    /\ UNCHANGED nonEmVars

\* One iteration of `for _, l := range listeners`, without the lock: the
\* element is read from the backing array as it is now, and a goroutine is
\* started that runs its callback.
EmitLoop ==
    /\ emPc = "loop"
    /\ emIndex <= emSnapLen
    /\ LET array == IF emShared THEN emArray[emType] ELSE emOwn
       IN emInvoked' = Append(emInvoked, array[emIndex])
    /\ emIndex' = emIndex + 1
    /\ UNCHANGED <<emArray, emLen, emCounter, emPc, emType, emSnapLen,
                   emShared, emOwn, emDuring>>
    /\ UNCHANGED nonEmVars

\* Emit returns.
EmitReturn ==
    /\ emPc = "loop"
    /\ emIndex > emSnapLen
    /\ emPc' = "done"
    /\ UNCHANGED <<emArray, emLen, emCounter, emType, emSnapLen, emShared,
                   emOwn, emIndex, emInvoked, emDuring>>
    /\ UNCHANGED nonEmVars

NextEmitter ==
    \/ \E eventType \in EventTypes : RegisterListener(eventType)
    \/ \E eventType \in EventTypes, id \in 1..emCounter :
          RemoveListener(eventType, id)
    \/ \E eventType \in EventTypes : EmitStart(eventType)
    \/ EmitLoop
    \/ EmitReturn

\* ------------------------------------------------------------------------
\* HTTP server start-up and shutdown
\* ------------------------------------------------------------------------
\* StartServer makes stopChan with room for one signal, startServer makes
\* errChan with room for one error.
StopChanCap == 1
ErrChanCap == 1

ErrServerClosed == <<"http: Server closed">>
ErrListen == <<"listen error">>
ErrShutdown == <<"shutdown failure">>

\* What ListenAndServe returns once Shutdown has been called: http.Server
\* returns ErrServerClosed, DummyHTTPServer returns nil.
AfterShutdownErrors == {ErrServerClosed, Nil}

\* What Shutdown returns.
ShutdownErrors == {Nil, ErrShutdown}

InitSrv ==
    /\ srvPc = "wait"
    /\ srvRet = Nil
    /\ lsPc = "start"
    /\ lsErr = Nil
    /\ stopChan = 0
    /\ errChan = <<>>
    /\ shutdownCalls = 0
    /\ signals = 0

\* The process is sent os.Interrupt or SIGTERM. signal.Notify does not block:
\* the signal is dropped when stopChan is full. The registration outlives
\* startServer.
Signal ==
    /\ signals < MaxSignals
    /\ signals' = signals + 1
    /\ stopChan' = IF stopChan < StopChanCap THEN stopChan + 1 ELSE stopChan
    /\ UNCHANGED <<srvPc, srvRet, lsPc, lsErr, errChan, shutdownCalls>>
    /\ UNCHANGED nonSrvVars

\* startServer: <-stopChan.
AwaitStop ==
    /\ srvPc = "wait"
    /\ stopChan > 0
    /\ stopChan' = stopChan - 1
    /\ srvPc' = "shutdown"
    /\ UNCHANGED <<srvRet, lsPc, lsErr, errChan, shutdownCalls, signals>>
    /\ UNCHANGED nonSrvVars

\* startServer: server.Shutdown(ctx) returns err; a non-nil err is returned
\* wrapped, without a receive from errChan.
Shutdown(err) ==
    /\ srvPc = "shutdown"
    /\ shutdownCalls' = shutdownCalls + 1
    /\ IF err # Nil
         THEN /\ srvPc' = "returned"
              /\ srvRet' = Errorf("startServer: shutdown error", err)
         ELSE /\ srvPc' = "recv"
              /\ UNCHANGED srvRet
    /\ UNCHANGED <<lsPc, lsErr, stopChan, errChan, signals>>
    /\ UNCHANGED nonSrvVars

\* startServer: return <-errChan.
ReturnErrChan ==
    /\ srvPc = "recv"
    /\ errChan # <<>>
    /\ srvRet' = Head(errChan)
    /\ errChan' = Tail(errChan)
    /\ srvPc' = "returned"
    /\ UNCHANGED <<lsPc, lsErr, stopChan, shutdownCalls, signals>>
    /\ UNCHANGED nonSrvVars

\* The goroutine started by startServer runs and listenAndServe calls
\* server.ListenAndServe().
Listen ==
    /\ lsPc = "start"
    /\ lsPc' = "listen"
    /\ UNCHANGED <<srvPc, srvRet, lsErr, stopChan, errChan, shutdownCalls,
                   signals>>
    /\ UNCHANGED nonSrvVars

\* listenAndServe: server.ListenAndServe() fails, as that of a
\* DummyHTTPServer with ListenAndServeErr does whenever the goroutine gets to
\* it.
ListenFails ==
    /\ lsPc = "listen"
    /\ lsErr' = ErrListen
    /\ lsPc' = "sendErr"
    /\ UNCHANGED <<srvPc, srvRet, stopChan, errChan, shutdownCalls, signals>>
    /\ UNCHANGED nonSrvVars

\* listenAndServe: server.ListenAndServe() returns once Shutdown has been
\* called.
ListenReturns(err) ==
    /\ lsPc = "listen"
    /\ shutdownCalls > 0
    /\ lsErr' = err
    /\ lsPc' = "sendErr"
    /\ UNCHANGED <<srvPc, srvRet, stopChan, errChan, shutdownCalls, signals>>
    /\ UNCHANGED nonSrvVars

\* listenAndServe: errChan <- err when err is not ErrServerClosed, with
\* stopChan <- os.Interrupt to follow; errChan <- nil otherwise.
SendErr ==
    /\ lsPc = "sendErr"
    /\ Len(errChan) < ErrChanCap
    /\ IF ~ErrorsIs(lsErr, ErrServerClosed)
         THEN errChan' = Append(errChan, lsErr) /\ lsPc' = "sendStop"
         ELSE errChan' = Append(errChan, Nil) /\ lsPc' = "done"
    /\ UNCHANGED <<srvPc, srvRet, lsErr, stopChan, shutdownCalls, signals>>
    /\ UNCHANGED nonSrvVars

\* listenAndServe: stopChan <- os.Interrupt, which blocks while stopChan is
\* full.
SendStop ==
    /\ lsPc = "sendStop"
    /\ stopChan < StopChanCap
    /\ stopChan' = stopChan + 1
    /\ lsPc' = "done"
    /\ UNCHANGED <<srvPc, srvRet, lsErr, errChan, shutdownCalls, signals>>
    /\ UNCHANGED nonSrvVars

NextServer ==
    \/ Signal
    \/ AwaitStop
    \/ \E err \in ShutdownErrors : Shutdown(err)
    \/ ReturnErrChan
    \/ Listen
    \/ ListenFails
    \/ \E err \in AfterShutdownErrors : ListenReturns(err)
    \/ SendErr
    \/ SendStop

\* ------------------------------------------------------------------------
\* Specification of the transaction unit-of-work
\* ------------------------------------------------------------------------
Init == InitTx /\ InitIn /\ InitDb /\ InitCh /\ InitRw /\ InitEm /\ InitSrv

SpecChain == Init /\ [][NextChain]_vars

SpecResWrap == Init /\ [][NextResWrap]_vars

SpecEmitter == Init /\ [][NextEmitter]_vars

SpecServer == Init /\ [][NextServer]_vars

Next ==
    \/ \E ce \in {Nil} \cup CommitErrors, re \in {Nil} \cup RollbackErrors :
          CallTransaction(ce, re)
    \/ \E r \in RowIds : TxFnExec(r)
    \/ \E v \in ResultValues, e \in {Nil} \cup TxFnErrors : TxFnReturn(v, e)
    \/ \E p \in PanicValues : TxFnPanic(p)
    \/ DeferRecover
    \/ Finalize
    \/ Propagate
    \/ \E connErr \in {Nil} \cup ConnErrors, beginErr \in {Nil} \cup BeginErrors,
          ce \in {Nil} \cup CommitErrors, re \in {Nil} \cup RollbackErrors :
          WithTransaction(connErr, beginErr, ce, re)
    \/ \E connErr \in {Nil} \cup ConnErrors, beginErr \in {Nil} \cup BeginErrors,
          ce \in {Nil} \cup CommitErrors, re \in {Nil} \cup RollbackErrors :
          GetInvokeBegin(connErr, beginErr, ce, re)
    \/ \E count \in BOOLEAN, n \in ResultValues, repoErr \in {Nil} \cup RepoErrors :
          GetInvokeRepo(count, n, repoErr)

Spec == Init /\ [][Next]_vars

\* ------------------------------------------------------------------------
\* Specification of the field translation layer
\* ------------------------------------------------------------------------
NextInput ==
    \/ /\ inCall.fn = "none"
       /\ \E allow \in AllowLists, s \in SelectorInputs :
               \E keys \in RangeOrders(DOMAIN s) : CallToDBSelectors(allow, s, keys)
    \/ /\ inCall.fn = "none"
       /\ \E allow \in AllowLists, o \in OrderInputs :
               \E keys \in RangeOrders(DOMAIN o) : CallToDBOrders(allow, o, keys)
    \/ /\ inCall.fn = "none"
       /\ \E allow \in AllowLists, o \in OrderInputs :
               \E dkeys \in RangeOrders(DOMAIN o), keys \in RangeOrders(DOMAIN o) :
                  CallTranslateToDBOrders(allow, o, dkeys, keys)
    \/ /\ inCall.fn = "none"
       /\ \E allow \in AllowLists, u \in UpdateInputs :
               \E keys \in RangeOrders(DOMAIN u) : CallToDBUpdates(allow, u, keys)
    \/ /\ inCall.fn = "none"
       /\ \E allow \in AllowLists, s \in ParseSelectorInputs, o \in ParseOrderInputs,
                page \in PageInputs, count \in BOOLEAN :
               \E dkeys \in RangeOrders(DOMAIN o), okeys \in RangeOrders(DOMAIN o),
                  skeys \in RangeOrders(DOMAIN s) :
                  CallParseGetInput(allow, s, o, page, MaxPageArg, count,
                                    dkeys, okeys, skeys)
    \/ /\ inCall.fn = "none"
       /\ \E allow \in AllowLists, s \in ParseSelectorInputs, u \in UpdateInputs,
                upsert \in BOOLEAN :
               \E skeys \in RangeOrders(DOMAIN s), ukeys \in RangeOrders(DOMAIN u) :
                  CallParseUpdateInput(allow, s, u, upsert, skeys, ukeys)
    \/ /\ inCall.fn = "none"
       /\ \E allow \in AllowLists, s \in ParseSelectorInputs, o \in ParseOrderInputs,
                limit \in LimitInputs :
               \E skeys \in RangeOrders(DOMAIN s), dkeys \in RangeOrders(DOMAIN o),
                  okeys \in RangeOrders(DOMAIN o) :
                  CallParseDeleteInput(allow, s, o, limit, skeys, dkeys, okeys)

SpecInput == Init /\ [][NextInput]_vars

\* ------------------------------------------------------------------------
\* Specification of the execution primitives
\* ------------------------------------------------------------------------
NextDb ==
    \/ /\ dbCall.fn = "none"
       /\ \E nilHandle \in BOOLEAN, errorChecker \in BOOLEAN :
             \E env \in EnvsOf(nilHandle, ExecEnvs) :
                CallExec(nilHandle, errorChecker, env)
    \/ /\ dbCall.fn = "none"
       /\ \E nilHandle \in BOOLEAN, errorChecker \in BOOLEAN :
             \E env \in EnvsOf(nilHandle, QueryEnvs) :
                CallQuery(nilHandle, errorChecker, env)
    \/ /\ dbCall.fn = "none"
       /\ \E nilHandle \in BOOLEAN, errorChecker \in BOOLEAN :
             \E env \in EnvsOf(nilHandle, ExecEnvs) :
                CallExecRaw(nilHandle, errorChecker, env)
    \/ /\ dbCall.fn = "none"
       /\ \E nilHandle \in BOOLEAN, errorChecker \in BOOLEAN :
             \E env \in EnvsOf(nilHandle, QueryEnvs) :
                CallQueryRaw(nilHandle, errorChecker, env)
    \/ /\ dbCall.fn = "none"
       /\ \E nilHandle \in BOOLEAN, errorChecker \in BOOLEAN :
             \E env \in EnvsOf(nilHandle, RowEnvs) :
                CallQuerySingleValue(nilHandle, errorChecker, env)
    \/ /\ dbCall.fn = "none"
       /\ \E nilHandle \in BOOLEAN, errorChecker \in BOOLEAN :
             \E env \in EnvsOf(nilHandle, RowEnvs) :
                CallQuerySingleEntity(nilHandle, errorChecker, env)
    \/ /\ dbCall.fn = "none"
       /\ \E nilHandle \in BOOLEAN, errorChecker \in BOOLEAN :
             \E env \in EnvsOf(nilHandle, RowsEnvs) :
                CallQueryEntities(nilHandle, errorChecker, env)
    \/ /\ dbCall.fn = "none"
       /\ \E nilHandle \in BOOLEAN, errorChecker \in BOOLEAN :
             \E env \in EnvsOf(nilHandle, RowsEnvs) :
                CallQueryCustom(nilHandle, errorChecker, env)
    \/ /\ dbCall.fn = "none"
       /\ \E nilHandle \in BOOLEAN, errorChecker \in BOOLEAN :
             \E env \in EnvsOf(nilHandle, InsertEnvs) :
                CallInsert(nilHandle, errorChecker, env)
    \/ /\ dbCall.fn = "none"
       /\ \E nilHandle \in BOOLEAN :
             \E env \in EnvsOf(nilHandle, QueryEnvs) :
                CallRawQueryerQuery(nilHandle, env)

SpecDb == Init /\ [][NextDb]_vars

\* ------------------------------------------------------------------------
\* Properties of the transaction unit-of-work
\* ------------------------------------------------------------------------

\* An invocation of database.Transaction has ended.
TransactionEnded == pc = "done" /\ txEntered

\* txFn returned a non-nil error.
TxFnFailed == fOut.kind = "return" /\ fOut.err # Nil

\* txFn returned a nil error.
TxFnSucceeded == fOut.kind = "return" /\ fOut.err = Nil

\* C1: in every invocation of Transaction exactly one of tx.Commit and
\* tx.Rollback is called, exactly once, before control leaves Transaction,
\* whether txFn returns a value, returns an error or panics; never both and
\* never neither.
C1_ExactlyOneOfCommitRollback ==
    /\ txEntered => commitCalled + rollbackCalled <= 1
    /\ (txEntered /\ outcome.kind # "none") =>
          commitCalled + rollbackCalled = 1
    /\ TransactionEnded => outcome.kind # "none"

C1_Witness ==
    /\ TransactionEnded
    /\ fOut.kind = "panic"
    /\ rollbackCalled = 1
    /\ commitCalled = 0

\* C2: if txFn returns an error or panics after writing through tx, none of
\* the rows it wrote is visible in the store once Transaction has ended; if
\* txFn returns without error and the commit succeeds, the rows it wrote are
\* visible once Transaction has returned.
C2_Atomicity ==
    TransactionEnded =>
        /\ (TxFnFailed \/ fOut.kind = "panic") => store \cap fOut.wrote = {}
        /\ (TxFnSucceeded /\ commitErr = Nil) => fOut.wrote \subseteq store

C2_Witness ==
    /\ TransactionEnded
    /\ TxFnFailed
    /\ fOut.wrote = RowIds
    /\ store = {}

\* C3: if txFn panics, Transaction calls tx.Rollback and not tx.Commit before
\* the panic leaves Transaction, the panic that leaves carries the value txFn
\* panicked with, and the invocation never returns normally.
C3_PanicRollsBackThenRepanics ==
    /\ [](outcome.kind = "panic" =>
            /\ fOut.kind = "panic"
            /\ outcome.pv = fOut.pv
            /\ rollbackCalled = 1
            /\ commitCalled = 0)
    /\ []((TransactionEnded /\ fOut.kind = "panic") => outcome.kind = "panic")
    /\ [][(outcome.kind = "none" /\ outcome'.kind = "panic") =>
            (rollbackCalled = 1 /\ commitCalled = 0)]_vars

C3_Witness ==
    /\ TransactionEnded
    /\ fOut.kind = "panic"
    /\ outcome = Panicked("panic occurred")
    /\ rollbackCalled = 1

\* The failure of the finalizing call made on tx, or Nil.
FinalizationFailure ==
    IF commitCalled > 0 /\ commitErr # Nil THEN commitErr
    ELSE IF rollbackCalled > 0 /\ rollbackErr # Nil THEN rollbackErr
    ELSE Nil

\* C4: a failure of tx.Commit or tx.Rollback is never swallowed: whenever the
\* finalizing call returned an error, the caller of Transaction is handed an
\* error that carries that failure, on the success path, the error path and
\* the panic path alike.
C4_FinalizationFailureSurfaced ==
    (TransactionEnded /\ FinalizationFailure # Nil) =>
        /\ outcome.err # Nil
        /\ ErrorsIs(outcome.err, FinalizationFailure)

\* C5: if txFn returns an error and tx.Rollback succeeds, Transaction returns
\* txFn's error; if tx.Rollback fails, Transaction returns the rollback
\* failure instead, and txFn's error is not part of it.
C5_RollbackFailureMasksTxFnError ==
    (TransactionEnded /\ TxFnFailed) =>
        /\ outcome.kind = "return"
        /\ rollbackErr = Nil => outcome.err = fOut.err
        /\ rollbackErr # Nil =>
              /\ outcome.err =
                    Errorf("finalizeTransaction rollback error", rollbackErr)
              /\ ErrorsIs(outcome.err, rollbackErr)
              /\ ~ErrorsIs(outcome.err, fOut.err)

C5_Witness ==
    /\ TransactionEnded
    /\ TxFnFailed
    /\ rollbackErr # Nil
    /\ ErrorsIs(outcome.err, rollbackErr)

\* C6 as stated: whenever txFn returns a non-nil error, the Result that
\* Transaction returns is the zero value, whether the rollback succeeds or
\* fails.
C6_ResultZeroOnTxFnError ==
    (TransactionEnded /\ TxFnFailed) => outcome.result = zero

\* C6 as amended: when txFn returns a non-nil error and the rollback fails,
\* the Result that Transaction returns is the zero value; when the rollback
\* succeeds, Transaction returns the Result txFn returned, zero or not,
\* together with txFn's error.
C6_ResultZeroOnRollbackFailure ==
    (TransactionEnded /\ TxFnFailed) =>
        /\ rollbackErr # Nil => outcome.result = zero
        /\ rollbackErr = Nil =>
              outcome.result = fOut.result /\ outcome.err = fOut.err

C6_Witness ==
    /\ TransactionEnded
    /\ TxFnFailed
    /\ fOut.result # zero
    /\ rollbackErr # Nil
    /\ outcome.result = zero

\* C7: if txFn returns (v, nil), Transaction calls tx.Commit; if the commit
\* succeeds Transaction returns (v, nil), and if it fails Transaction returns
\* the zero value together with an error that is the commit failure.
C7_CommitOnSuccess ==
    (TransactionEnded /\ TxFnSucceeded) =>
        /\ commitCalled = 1
        /\ rollbackCalled = 0
        /\ commitErr = Nil => outcome = Returned(fOut.result, Nil)
        /\ commitErr # Nil =>
              /\ outcome.kind = "return"
              /\ outcome.result = zero
              /\ ErrorsIs(outcome.err, commitErr)

C7_Witness ==
    /\ TransactionEnded
    /\ TxFnSucceeded
    /\ fOut.result # zero
    /\ commitErr # Nil
    /\ commitCalled = 1
    /\ outcome.result = zero

\* C8: every transaction the library itself begins (conn.BeginTx in
\* txManager.WithTransaction and in api.GetInvoke) is ended with exactly one
\* of Commit or Rollback before the operation that began it returns.
C8_BegunTransactionEnded ==
    (pc = "done" /\ txBegun > 0) => commitCalled + rollbackCalled = txBegun

\* ------------------------------------------------------------------------
\* Properties of the field translation layer
\* ------------------------------------------------------------------------

\* The fields of a collection that are no keys of the call's allow-list.
NotAllowed(collection) == DOMAIN collection \ DOMAIN inCall.allow

\* The call returned an error and no slice.
ReturnedErrorOnly == inRet.err # Nil /\ inRet.val = NilSlice

\* C9: translating selectors, orders or updates that name a field that is no
\* key of the allow-list returns a non-nil error and no Query-Model slice,
\* whatever other, valid entries the collection contains.
C9_AllowListEnforced ==
    /\ (inCall.fn = "ToDBSelectors" /\ NotAllowed(inCall.selectors) # {})
          => ReturnedErrorOnly
    /\ (inCall.fn \in {"ToDBOrders", "TranslateToDBOrders"}
          /\ NotAllowed(inCall.orders) # {}) => ReturnedErrorOnly
    /\ (inCall.fn = "ToDBUpdates" /\ NotAllowed(inCall.updates) # {})
          => ReturnedErrorOnly

C9_Witness ==
    /\ inCall.fn = "ToDBSelectors"
    /\ DOMAIN inCall.selectors = {"age", "name"}
    /\ DOMAIN inCall.allow = {"age"}
    /\ inCall.selectors["age"].Predicate = Eq
    /\ inCall.selectors["name"].Predicate = Eq
    /\ inRet = Ret(NilSlice, ErrInvalidDatabaseSelectorTranslation("name"))

\* C10: every parsed input ParseUpdateInput returns holds at least one
\* selector and at least one update, and every parsed input ParseDeleteInput
\* returns holds at least one selector; a call with no selectors (or, for
\* update, no updates) returns an error and no parsed input.
C10_MinimumClauses ==
    /\ inCall.fn = "ParseUpdateInput" =>
          /\ ~inRet.val.nil =>
                /\ Len(inRet.val.Selectors.elems) >= 1
                /\ Len(inRet.val.Updates.elems) >= 1
          /\ (DOMAIN inCall.selectors = {} \/ DOMAIN inCall.updates = {}) =>
                (inRet.err # Nil /\ inRet.val.nil)
    /\ inCall.fn = "ParseDeleteInput" =>
          /\ ~inRet.val.nil => Len(inRet.val.Selectors.elems) >= 1
          /\ DOMAIN inCall.selectors = {} =>
                (inRet.err # Nil /\ inRet.val.nil)

C10_Witness ==
    /\ inCall.fn = "ParseUpdateInput"
    /\ DOMAIN inCall.selectors = {"age"}
    /\ inCall.selectors["age"].Predicate = Eq
    /\ "age" \in DOMAIN inCall.allow
    /\ DOMAIN inCall.updates = {}
    /\ inRet = Ret(NilInput, ErrNeedAtLeastOneUpdate)

\* The call was one of the Parse*Input functions.
ParseCall == inCall.fn \in {"ParseGetInput", "ParseUpdateInput", "ParseDeleteInput"}

\* C11: ParseGetInput, ParseUpdateInput and ParseDeleteInput return either a
\* non-nil parsed input with a nil error or a nil parsed input with a non-nil
\* error, never both and never neither; when a later translation step fails
\* nothing of the earlier, successful steps is returned.
C11_ValueXorError ==
    ParseCall =>
        /\ inRet.val.nil <=> inRet.err # Nil
        /\ inRet.err # Nil => inRet.val = NilInput

C11_Witness ==
    /\ inCall.fn = "ParseDeleteInput"
    /\ DOMAIN inCall.selectors = {"age"}
    /\ inCall.selectors["age"].Predicate = Eq
    /\ DOMAIN inCall.allow = {"age"}
    /\ DOMAIN inCall.orders = {"name"}
    /\ inCall.orders["name"] = DirectionAsc
    /\ inRet = Ret(NilInput, Errorf("TranslateToDBOrders",
                                     ErrInvalidOrderField("name")))

\* The spellings "GT", "gt" and ">" of the greater-than predicate.
GreaterSpellings == {<<"G", "T">>, Gt, Greater}

\* Every field of the call's selectors is a key of the allow-list.
SelectorFieldsAllowed == NotAllowed(inCall.selectors) = {}

\* C12: ToDBSelectors translates the predicate tokens "GT", "gt" and ">"
\* successfully, and each of the three to the greater-than predicate.
C12_GreaterSpellings ==
    (/\ inCall.fn = "ToDBSelectors"
     /\ SelectorFieldsAllowed
     /\ \A f \in DOMAIN inCall.selectors :
           inCall.selectors[f].Predicate \in GreaterSpellings)
    => /\ inRet.err = Nil
       /\ ~inRet.val.nil
       /\ Len(inRet.val.elems) = Cardinality(DOMAIN inCall.selectors)
       /\ \A i \in DOMAIN inRet.val.elems :
             inRet.val.elems[i].Predicate = dbqueryGreater

C12_Witness ==
    /\ inCall.fn = "ToDBSelectors"
    /\ DOMAIN inCall.selectors = {"age", "name"}
    /\ DOMAIN inCall.allow = {"age", "name"}
    /\ inCall.selectors["age"].Predicate = <<"G", "T">>
    /\ inCall.selectors["name"].Predicate = Greater
    /\ inRet.err = Nil
    /\ Len(inRet.val.elems) = 2
    /\ \A i \in 1..2 : inRet.val.elems[i].Predicate = dbqueryGreater

\* The aliases of AllPredicates a token is a spelling of, in whatever case.
AliasesOf(token) == {a \in AllPredicates : ToLower(a) = ToLower(token)}

\* C13: for every alias of AllPredicates, every upper-, lower- or mixed-case
\* spelling of it is accepted by ToDBSelectors and yields the predicate the
\* table assigns to the alias.
C13_CaseInsensitiveLookup ==
    (/\ inCall.fn = "ToDBSelectors"
     /\ SelectorFieldsAllowed
     /\ \A f \in DOMAIN inCall.selectors :
           AliasesOf(inCall.selectors[f].Predicate) # {})
    => /\ inRet.err = Nil
       /\ \A i \in DOMAIN inRet.val.elems :
             \E f \in DOMAIN inCall.selectors :
                /\ inRet.val.elems[i].Column = inCall.allow[f].Column
                /\ \A a \in AliasesOf(inCall.selectors[f].Predicate) :
                      inRet.val.elems[i].Predicate = ToDBPredicates[a]

\* The errors a call of the function of the state, with the inputs of the
\* state, can return: one for every order in which the ranges over its maps
\* can visit the keys.
OutcomesOfCall ==
    LET sk == RangeOrders(DOMAIN inCall.selectors)
        ok == RangeOrders(DOMAIN inCall.orders)
        uk == RangeOrders(DOMAIN inCall.updates)
    IN CASE inCall.fn = "ToDBSelectors" ->
              {ToDBSelectors(inCall.selectors, inCall.allow, k).err : k \in sk}
         [] inCall.fn = "ToDBOrders" ->
              {ToDBOrders(inCall.orders, inCall.allow, k).err : k \in ok}
         [] inCall.fn = "ToDBUpdates" ->
              {ToDBUpdates(inCall.updates, inCall.allow, k).err : k \in uk}
         [] inCall.fn = "ParseUpdateInput" ->
              {ParseUpdateInput(inCall.allow, inCall.selectors, inCall.updates,
                                inCall.upsert, k[1], k[2]).err : k \in sk \X uk}
         [] OTHER -> {inRet.err}

\* C14: for the same allow-list and the same selectors, orders and updates,
\* every call of ToDBSelectors, ToDBOrders, ToDBUpdates and the Parse*Input
\* functions has the same verdict and, on failure, returns the same error,
\* also when several entries of a collection are invalid.
C14_SameOutcomeForSameInputs ==
    inCall.fn # "none" => OutcomesOfCall = {inRet.err}

\* ------------------------------------------------------------------------
\* Properties of the execution primitives
\* ------------------------------------------------------------------------

\* The execution primitives: the functions of dbops.go that take a hook, and
\* customRepo.QueryCustom.
ExecutionPrimitives ==
    {"Exec", "Query", "ExecRaw", "QueryRaw", "QuerySingleValue",
     "QuerySingleEntity", "QueryEntities", "QueryCustom"}

\* How often the call of the state called ev on a handle or on the hook.
Calls(ev) == Cardinality({i \in DOMAIN dbRet.log : dbRet.log[i] = ev})

\* The call of the state handed no open handle to its caller.
NoHandleReturned == ~dbRet.rows /\ ~dbRet.stmt

\* The errors the primitives return for a nil preparer or a nil db.
NilHandleErrors ==
    {<<"Exec: preparer is nil">>, <<"Query: preparer is nil">>,
     <<"ExecRaw: db is nil">>, <<"QueryRaw: db is nil">>,
     <<"QuerySingleValue: preparer is nil">>,
     <<"QuerySingleEntity: preparer is nil">>}

\* C15: Exec, Query, QuerySingleValue, QuerySingleEntity and QueryEntities
\* called with a nil preparer, and ExecRaw and QueryRaw called with a nil db,
\* return a nil-handle error at once: no method of any handle is called and
\* the error is not passed through the error-translation hook.
C15_NilHandleRejected ==
    (/\ dbCall.fn \in {"Exec", "Query", "QuerySingleValue", "QuerySingleEntity",
                       "QueryEntities", "ExecRaw", "QueryRaw"}
     /\ dbCall.nilHandle)
    => /\ dbRet.err \in NilHandleErrors
       /\ dbRet.log = <<>>
       /\ dbRet.val = NilSlice
       /\ NoHandleReturned

C15_Witness ==
    /\ dbCall.fn = "QueryEntities"
    /\ dbCall.nilHandle
    /\ dbCall.errorChecker
    /\ dbRet.err = <<"Query: preparer is nil">>
    /\ dbRet.log = <<>>

\* C16: when Prepare and Stmt.Query both succeed, Query returns the row
\* cursor and the statement open and closes neither; when Stmt.Query fails
\* after a successful Prepare, Query closes the statement exactly once, after
\* the query and before it returns the error, and returns no handle.
C16_QueryHandsOverOrCloses ==
    (dbCall.fn = "Query" /\ ~dbCall.nilHandle /\ dbCall.env.prepareErr = Nil)
    => /\ dbCall.env.queryErr = Nil =>
             /\ dbRet.err = Nil
             /\ dbRet.rows /\ dbRet.stmt
             /\ dbRet.log = <<"Prepare", "Stmt.Query">>
       /\ dbCall.env.queryErr # Nil =>
             /\ dbRet.err # Nil
             /\ NoHandleReturned
             /\ Calls("Stmt.Close") = 1
             /\ Len(dbRet.log) >= 3
             /\ SubSeq(dbRet.log, 1, 3) = <<"Prepare", "Stmt.Query", "Stmt.Close">>

C16_Witness ==
    /\ dbCall.fn = "Query"
    /\ ~dbCall.nilHandle
    /\ dbCall.env.prepareErr = Nil
    /\ dbCall.env.queryErr = ErrQuery
    /\ dbCall.env.closeErr = Nil
    /\ ~dbCall.errorChecker
    /\ dbRet.err = ErrQuery
    /\ dbRet.log = <<"Prepare", "Stmt.Query", "Stmt.Close">>
    /\ NoHandleReturned

\* C17: Exec prepares the statement, then executes it, then closes it; when
\* Prepare fails neither Stmt.Exec nor Stmt.Close is called; when Prepare
\* succeeds the statement is closed exactly once before Exec returns, whether
\* Stmt.Exec succeeded or failed.
C17_ExecPrepareExecClose ==
    (dbCall.fn = "Exec" /\ ~dbCall.nilHandle)
    => /\ dbCall.env.prepareErr # Nil =>
             /\ dbRet.log \in {<<"Prepare">>, <<"Prepare", "Check">>}
             /\ Calls("Stmt.Exec") = 0
             /\ Calls("Stmt.Close") = 0
       /\ dbCall.env.prepareErr = Nil =>
             /\ Len(dbRet.log) >= 3
             /\ SubSeq(dbRet.log, 1, 3) = <<"Prepare", "Stmt.Exec", "Stmt.Close">>
             /\ Calls("Prepare") = 1
             /\ Calls("Stmt.Exec") = 1
             /\ Calls("Stmt.Close") = 1

C17_Witness ==
    /\ dbCall.fn = "Exec"
    /\ ~dbCall.nilHandle
    /\ dbCall.env.prepareErr = Nil
    /\ dbCall.env.execErr = ErrExec
    /\ dbRet.err = ErrExec
    /\ dbRet.log = <<"Prepare", "Stmt.Exec", "Stmt.Close">>

\* The statements the call of the state prepared, and the row cursors it
\* opened.
StatementsPrepared ==
    IF dbCall.env.prepareErr = Nil THEN Calls("Prepare") ELSE 0
CursorsOpened ==
    IF dbCall.env.queryErr = Nil THEN Calls("Stmt.Query") ELSE 0

\* C18: when QuerySingleValue, QuerySingleEntity, QueryEntities or
\* QueryCustom has returned, on success, prepare failure, query failure or a
\* scan failure part-way through the rows, every statement it prepared and
\* every row cursor it opened has been closed and none is handed out.
C18_NothingLeftOpen ==
    dbCall.fn \in {"QuerySingleValue", "QuerySingleEntity", "QueryEntities",
                   "QueryCustom"}
    => /\ Calls("Stmt.Close") = StatementsPrepared
       /\ Calls("Rows.Close") = CursorsOpened
       /\ NoHandleReturned

C18_Witness ==
    /\ dbCall.fn = "QueryEntities"
    /\ ~dbCall.nilHandle
    /\ dbCall.env.nrows = 2
    /\ dbCall.env.scanFailAt = 2
    /\ dbRet.err = ErrScan
    /\ dbRet.log = <<"Prepare", "Stmt.Query", "Next", "ScanRow", "Next",
                     "ScanRow", "Rows.Close", "Stmt.Close">>

\* The call of the state failed in the execution of the statement or in the
\* scan of its rows: it had a handle, Prepare succeeded, and it returned an
\* error.
ExecutionOrScanFailed ==
    /\ dbCall.fn \in ExecutionPrimitives
    /\ ~dbCall.nilHandle
    /\ dbCall.env.prepareErr = Nil
    /\ dbRet.err # Nil

\* C19: with an error-translation hook, every error of a failed execution or
\* a failed scan of rows is passed through the hook before it is returned, by
\* every primitive alike, the scans inside QueryEntities and QueryCustom
\* included.
C19_HookAppliedToEveryFailure ==
    (dbCall.errorChecker /\ ExecutionOrScanFailed)
    => /\ Calls("Check") = 1
       /\ Head(dbRet.err) = "checked"

\* The error of the first call on a handle that fails in the call of the
\* state; Nil when none fails.
RawError ==
    LET env == dbCall.env
        scanErr == IF env.scanFailAt \in 1..env.nrows THEN ErrScan ELSE Nil
    IN CASE dbCall.fn = "ExecRaw" -> env.execErr
         [] dbCall.fn = "QueryRaw" -> env.queryErr
         [] env.prepareErr # Nil -> env.prepareErr
         [] dbCall.fn = "Exec" -> env.execErr
         [] dbCall.fn = "Query" -> env.queryErr
         [] dbCall.fn \in {"QuerySingleValue", "QuerySingleEntity"} ->
              IF scanErr # Nil THEN scanErr ELSE env.rowErr
         [] OTHER ->
              IF env.queryErr # Nil THEN env.queryErr
              ELSE IF scanErr # Nil THEN scanErr ELSE env.rowsErr

\* The call of the state had a handle and no hook, and returned an error.
FailedWithoutHook ==
    /\ dbCall.fn \in ExecutionPrimitives
    /\ ~dbCall.nilHandle
    /\ ~dbCall.errorChecker
    /\ dbRet.err # Nil

\* Stmt.Query failed after a successful Prepare, and the Stmt.Close that
\* followed failed too.
QueryAndCloseFailed ==
    /\ dbCall.fn \in {"Query", "QueryEntities", "QueryCustom"}
    /\ dbCall.env.prepareErr = Nil
    /\ dbCall.env.queryErr # Nil
    /\ dbCall.env.closeErr # Nil

\* C20 as stated: without a hook, the error a primitive returns for a failed
\* prepare, execute, query or scan is the raw error of the handle, unchanged:
\* not wrapped, replaced or combined with another error.
C20_RawErrorUnchanged ==
    FailedWithoutHook => dbRet.err = RawError

\* C20, amended: without a hook the returned error is the raw error of the
\* handle, unchanged, except when Stmt.Query fails and the Stmt.Close that
\* follows fails too: then the returned error combines the two.
C20_RawErrorUnlessCloseFails ==
    FailedWithoutHook =>
        /\ ~QueryAndCloseFailed => dbRet.err = RawError
        /\ QueryAndCloseFailed =>
              dbRet.err = <<"query error: ">> \o dbCall.env.queryErr
                            \o <<"; additionally, stmt.Close error: ">>
                            \o dbCall.env.closeErr

C20_Witness ==
    /\ dbCall.fn = "QueryEntities"
    /\ ~dbCall.nilHandle
    /\ ~dbCall.errorChecker
    /\ dbCall.env.queryErr = ErrQuery
    /\ dbCall.env.closeErr = ErrClose
    /\ dbRet.log = <<"Prepare", "Stmt.Query", "Stmt.Close">>
    /\ dbRet.err = <<"query error: ", "query error",
                     "; additionally, stmt.Close error: ", "close error">>

\* Insert could not execute its statement: Prepare or Stmt.Exec failed.
InsertExecFailed ==
    dbCall.env.prepareErr # Nil \/ dbCall.env.execErr # Nil

\* C21: Insert returns a non-nil error when the execution of the insert
\* statement or Result.LastInsertId fails and a nil error only when both
\* succeed; with a hook, the error of LastInsertId is passed through the hook.
C21_InsertFailsOnExecOrIdError ==
    (dbCall.fn = "Insert" /\ ~dbCall.nilHandle)
    => /\ dbRet.err # Nil <=> (InsertExecFailed \/ dbCall.env.idErr # Nil)
       /\ (~InsertExecFailed /\ dbCall.env.idErr # Nil) =>
             /\ Calls("Result.LastInsertId") = 1
             /\ dbRet.err = IF dbCall.errorChecker THEN Check(dbCall.env.idErr)
                                                  ELSE dbCall.env.idErr
             /\ Calls("Check") = IF dbCall.errorChecker THEN 1 ELSE 0

C21_Witness ==
    /\ dbCall.fn = "Insert"
    /\ ~dbCall.nilHandle
    /\ dbCall.errorChecker
    /\ ~InsertExecFailed
    /\ dbCall.env.idErr = ErrLastInsertId
    /\ dbRet.err = Check(ErrLastInsertId)
    /\ dbRet.log = <<"Prepare", "Stmt.Exec", "Stmt.Close",
                     "Result.LastInsertId", "Check">>

\* C26: when rawQueryer.Query returns a row cursor, the statement the cursor
\* came from has not been closed.
C26_StatementOpenWhileCursorOpen ==
    (dbCall.fn = "rawQueryer.Query" /\ dbRet.rows) => Calls("Stmt.Close") = 0

\* What the primitive fn returns for the arguments given.
Primitive(fn, nilHandle, errorChecker, env) ==
    CASE fn = "Exec" -> Exec(nilHandle, errorChecker, env)
      [] fn = "Query" -> Query(nilHandle, errorChecker, env)
      [] fn = "QuerySingleValue" -> QuerySingleValue(nilHandle, errorChecker, env)
      [] fn = "QuerySingleEntity" -> QuerySingleEntity(nilHandle, errorChecker, env)
      [] fn = "QueryEntities" -> QueryEntities(nilHandle, errorChecker, env)

PreparingPrimitives ==
    {"Exec", "Query", "QuerySingleValue", "QuerySingleEntity", "QueryEntities"}

\* C27: whether the error of a failed Prepare is passed through the hook
\* does not depend on the primitive: when the call of the state is one of
\* Exec, Query, QuerySingleValue, QuerySingleEntity and QueryEntities, has a
\* hook and fails in Prepare, each of the five, called with the same hook and
\* the same failing preparer, returns the same error.
C27_PrepareErrorHookUniform ==
    (/\ dbCall.fn \in PreparingPrimitives
     /\ ~dbCall.nilHandle
     /\ dbCall.errorChecker
     /\ dbCall.env.prepareErr # Nil)
    => \A fn \in PreparingPrimitives :
          Primitive(fn, FALSE, TRUE, dbCall.env).err = dbRet.err

\* ------------------------------------------------------------------------
\* Further properties of the field translation layer
\* ------------------------------------------------------------------------

\* The Query-Model selector of the selector of field f of the call.
SelectorOf(f) ==
    [Table |-> inCall.allow[f].Table,
     Column |-> inCall.allow[f].Column,
     Predicate |-> ToDBPredicates[ToLower(inCall.selectors[f].Predicate)],
     Value |-> inCall.selectors[f].Value]

\* C22: when ToDBSelectors succeeds its output holds exactly one selector
\* per input selector, with the table and column the allow-list maps the
\* field to, the predicate the token resolves to and the caller's value.
C22_OneSelectorPerInput ==
    (inCall.fn = "ToDBSelectors" /\ inRet.err = Nil)
    => /\ ~inRet.val.nil
       /\ Len(inRet.val.elems) = Cardinality(DOMAIN inCall.selectors)
       /\ \A f \in DOMAIN inCall.selectors :
             Cardinality({i \in DOMAIN inRet.val.elems :
                             inRet.val.elems[i] = SelectorOf(f)}) = 1

C22_Witness ==
    /\ inCall.fn = "ToDBSelectors"
    /\ DOMAIN inCall.allow = {"age"}
    /\ inCall.allow["age"] = DBField("users", "age")
    /\ DOMAIN inCall.selectors = {"age"}
    /\ inCall.selectors["age"] = [Predicate |-> Eq, Value |-> 18]
    /\ inRet = Ret(Slice(<<[Table |-> "users", Column |-> "age",
                            Predicate |-> "=", Value |-> 18]>>), Nil)

\* C25: every parsed input ParseGetInput returns carries a page whose offset
\* and limit are not negative and whose limit is at most maxPage, whether
\* the caller supplied the page or not.
C25_PageWithinBounds ==
    (inCall.fn = "ParseGetInput" /\ ~inRet.val.nil)
    => /\ inRet.val.Page.Offset >= 0
       /\ inRet.val.Page.Limit >= 0
       /\ inRet.val.Page.Limit <= inCall.maxPage

\* C28: every order ToDBOrders or TranslateToDBOrders returns has the
\* direction ascending or descending; a direction token that is none of asc,
\* ascending, desc, descending in any case never gives a returned order with
\* an empty direction.
C28_DirectionDefined ==
    (inCall.fn \in {"ToDBOrders", "TranslateToDBOrders"} /\ inRet.err = Nil)
    => \A i \in DOMAIN inRet.val.elems :
          inRet.val.elems[i].Direction \in {OrderAsc, OrderDesc}

\* ------------------------------------------------------------------------
\* Properties of the middleware chain
\* ------------------------------------------------------------------------

\* What runs on a request served by m1(m2(...mn(final))): the pre-processing
\* of m1..mn, the final handler, the post-processing of mn..m1.
NestedRun(middlewares) ==
    LET n == Len(middlewares)
    IN [k \in 1..(2 * n + 1) |->
          IF k <= n THEN <<middlewares[k], "pre">>
          ELSE IF k = n + 1 THEN <<"final", "run">>
          ELSE <<middlewares[2 * n + 2 - k], "post">>]

\* C23: the handler Chain builds from m1..mn and a final handler runs, on a
\* request, the pre-processing of m1..mn in list order, then the final
\* handler exactly once, then the post-processing of mn..m1; with an empty
\* list only the final handler runs.
C23_ChainNestsInListOrder ==
    chPc = "done" => chEvents = NestedRun(chMiddlewares)

C23_Witness ==
    /\ chPc = "done"
    /\ chMiddlewares = <<"m1", "m2">>
    /\ chEvents = <<<<"m1", "pre">>, <<"m2", "pre">>, <<"final", "run">>,
                    <<"m2", "post">>, <<"m1", "post">>>>

\* ------------------------------------------------------------------------
\* Properties of the response wrapper
\* ------------------------------------------------------------------------

\* C24: over any sequence of WriteHeader and Write calls on a ResWrap, the
\* WriteHeader of the underlying writer is invoked at most once, and once
\* the header has been written (by WriteHeader or by the first Write) no
\* later WriteHeader and no later change of the captured headers changes the
\* status code StatusCode reports or the headers of the underlying writer.
C24_HeaderWrittenOnce ==
    /\ [](Len(underlying.statusCodes) <= 1)
    /\ [][resWrap.headerWritten =>
             /\ resWrap'.statusCode = resWrap.statusCode
             /\ underlying'.headers = underlying.headers
             /\ underlying'.statusCodes = underlying.statusCodes]_vars

C24_Witness ==
    /\ rwCalls = <<"Header.Set", "WriteHeader", "Header.Set", "WriteHeader">>
    /\ resWrap.headerWritten
    /\ resWrap.statusCode = StatusCreated
    /\ resWrap.headers = [k \in {"X-Test"} |-> <<"value2">>]
    /\ underlying.headers = [k \in {"X-Test"} |-> <<"value1">>]
    /\ underlying.statusCodes = <<StatusCreated>>

\* ------------------------------------------------------------------------
\* Properties of the event emitter
\* ------------------------------------------------------------------------

\* C29: in a call of Emit each listener's callback is invoked at most once,
\* and only callbacks of listeners registered for the type of the event at
\* some moment of the call are invoked, also when RegisterListener or
\* RemoveListener run while Emit runs; a listener removed before Emit starts
\* is not invoked.
C29_InvokedAtMostOnce ==
    emPc # "idle" =>
        /\ \A j, k \in DOMAIN emInvoked : j # k => emInvoked[j] # emInvoked[k]
        /\ \A k \in DOMAIN emInvoked : emInvoked[k] \in emDuring

\* ------------------------------------------------------------------------
\* Properties of the HTTP server start-up and shutdown
\* ------------------------------------------------------------------------

\* startServer has returned and the goroutine of listenAndServe is at
\* stopChan <- os.Interrupt with stopChan full: startServer was the only
\* receiver, so the goroutine stays there.
ListenAndServeBlockedForever ==
    srvPc = "returned" /\ lsPc = "sendStop" /\ stopChan = StopChanCap

\* startServer is at <-errChan, errChan is empty and listenAndServe has no
\* send left.
StartServerBlockedForever ==
    srvPc = "recv" /\ errChan = <<>> /\ lsPc = "done"

\* C30: once a stop signal arrives or ListenAndServe returns an error,
\* startServer calls Shutdown exactly once and then returns, and neither
\* startServer nor the goroutine of listenAndServe is left blocked forever on
\* stopChan or errChan.
C30_ShutdownOnceNobodyBlocked ==
    /\ shutdownCalls <= 1
    /\ srvPc = "returned" => shutdownCalls = 1
    /\ ~StartServerBlockedForever
    /\ ~ListenAndServeBlockedForever

====
